---- MODULE Spec2Model ----
(***************************************************************************)
(* A model of the stdio JSON-RPC OCR server of src/src/ocr.ts: the line    *)
(* dispatcher (main), the tool-call handlers, the extraction pipeline, the *)
(* output file store and the conversation state.                           *)
(*                                                                         *)
(* One step of the model is one task of the Node event loop: the handling  *)
(* of one input line up to the point where the handler either finishes or  *)
(* waits for its curl child process, or the 'close' event of one curl      *)
(* child process together with the continuations it resumes.               *)
(***************************************************************************)
EXTENDS Integers, Sequences, FiniteSets, TLC

VARIABLES
  files,              \* the directory the images live in: entry name -> file
  conversationState,  \* ocr.ts:79  lastOcrResult, lastImagePath, llmResponses
  clientInfo,         \* ocr.ts:190
  OPENAI_API_KEY,     \* ocr.ts:66, as left by the start-up code
  curl,               \* the curl child processes that have not closed yet
  stdin,              \* "open" or "closed"
  replies,            \* replies[n]: messages written so far for the n-th line
  line,               \* the input line the last step handled
  wrote,              \* what the last step wrote to stdout
  ev,                 \* what the last step was
  saved               \* the extraction results saved so far

vars == <<files, conversationState, clientInfo, OPENAI_API_KEY, curl, stdin,
          replies, line, wrote, ev, saved>>

-----------------------------------------------------------------------------
(* Bounds of the model.                                                    *)

MaxLines == 2
MaxInFlight == 2

-----------------------------------------------------------------------------
(* JavaScript values, as far as the handlers look at them.                 *)

Undef == [t |-> "undefined"]
Null == [t |-> "null"]
Num(n) == [t |-> "number", n |-> n]
Str(s) == [t |-> "string", s |-> s]
Obj(f) == [t |-> "object", f |-> f]

\* ToBoolean: what `!v`, `v && ...` and `v || ...` test.
Truthy(v) ==
  CASE v.t = "undefined" -> FALSE
    [] v.t = "null" -> FALSE
    [] v.t = "number" -> v.n # 0
    [] v.t = "string" -> v.s # ""
    [] OTHER -> TRUE

\* v.k for a v that is neither undefined nor null (those throw a TypeError).
Get(v, k) == IF v.t = "object" /\ k \in DOMAIN v.f THEN v.f[k] ELSE Undef

\* v?.k
GetOpt(v, k) == IF v.t \in {"undefined", "null"} THEN Undef ELSE Get(v, k)

IsString(v) == v.t = "string"

\* `${v}` for the values the model uses.
Template(v) ==
  CASE v.t = "string" -> v.s
    [] v.t = "number" -> ToString(v.n)
    [] v.t = "null" -> "null"
    [] v.t = "undefined" -> "undefined"
    [] OTHER -> "[object Object]"

\* JSON.stringify of a string: quotes around it, and the quote, the backslash
\* and the newline inside it escaped.
RECURSIVE Escape(_)
Escape(s) ==
  IF Len(s) <= 1
  THEN CASE s = "\n" -> "\\n"
         [] s = "\"" -> "\\\""
         [] s = "\\" -> "\\\\"
         [] OTHER -> s
  ELSE LET half == Len(s) \div 2
       IN Escape(SubSeq(s, 1, half)) \o Escape(SubSeq(s, half + 1, Len(s)))
JsonString(s) == "\"" \o Escape(s) \o "\""

-----------------------------------------------------------------------------
(* Paths.  A file name is its dash-separated segments and its extension;   *)
(* a path adds the directory, "" for a relative path.                      *)

Cwd == "/d"

RECURSIVE JoinDash(_)
JoinDash(segs) ==
  IF Len(segs) = 0 THEN ""
  ELSE IF Len(segs) = 1 THEN segs[1]
  ELSE segs[1] \o "-" \o JoinDash(Tail(segs))

Entry(base, ext) == [base |-> base, ext |-> ext]
Name(e) == JoinDash(e.base) \o e.ext
PathString(dir, e) == IF dir = "" THEN Name(e) ELSE dir \o "/" \o Name(e)

-----------------------------------------------------------------------------
(* The texts the remote service can answer with, and their digests.        *)

\* ocr.ts:454  the first 8 hex digits of the SHA-256 of the text, tabulated
\* for the extracted texts of the model (the values are the real digests).
generateShortHash(text) ==
  CASE text = "Invoice 48251" -> "e2c598a1"
    [] text = "Invoice 83450" -> "e2c598a1"
    [] text = "Total: 10" -> "7aa9d06e"
    [] text = "No text extracted" -> "a17cc10e"
    [] text = "Analysis: none" -> "1446e406"

Hashes == {"e2c598a1", "7aa9d06e", "a17cc10e", "1446e406"}

-----------------------------------------------------------------------------
(* The directory.                                                          *)

ImageEntries ==
  { Entry(<<"scan">>, ".jpg"), Entry(<<"scan">>, ".png"),
    Entry(<<"scan", "2">>, ".jpg"), Entry(<<"huge">>, ".jpg"),
    Entry(<<"big">>, ".bmp"), Entry(<<"locked">>, ".jpg"), Entry(<<"locked">>, ".bmp"),
    Entry(<<"x">>, ".txt"), Entry(<<"ghost">>, ".jpg"),
    Entry(<<"notes">>, ".txt"), Entry(<<"ghost">>, ".txt") }

OutputEntries ==
  { Entry(Append(b, h), ".txt") : b \in {<<"scan">>, <<"scan", "2">>}, h \in Hashes }

AllEntries == ImageEntries \cup OutputEntries
Names == { Name(e) : e \in AllEntries }
NameTable == [s \in Names |-> CHOOSE e \in AllEntries : Name(e) = s]
ParseName(s) == NameTable[s]

\* The names in the order of strcmp, the order readdirSync lists them in.
DirOrder ==
  << "big.bmp", "ghost.jpg", "ghost.txt", "huge.jpg", "locked.bmp", "locked.jpg",
     "notes.txt",
     "scan-1446e406.txt", "scan-2-1446e406.txt", "scan-2-7aa9d06e.txt",
     "scan-2-a17cc10e.txt", "scan-2-e2c598a1.txt", "scan-2.jpg",
     "scan-7aa9d06e.txt", "scan-a17cc10e.txt", "scan-e2c598a1.txt", "scan.jpg",
     "scan.png", "x.txt" >>

KnownPaths == { [dir |-> d, e |-> e] : d \in {"", Cwd}, e \in AllEntries }
PathOf(p) == PathString(p.dir, p.e)
PathTable ==
  [s \in { PathOf(p) : p \in KnownPaths } |->
    LET p == CHOOSE q \in KnownPaths : PathOf(q) = s
    IN [dir |-> p.dir, e |-> p.e, name |-> Name(p.e),
        resolved |-> PathString(IF p.dir = "" THEN Cwd ELSE p.dir, p.e)]]
ParsePath(s) == PathTable[s]

\* path.resolve, path.dirname, path.extname, path.basename(p, extname(p)),
\* path.join(dir, name)
Resolve(s) == ParsePath(s).resolved
Dirname(s) == LET p == ParsePath(s) IN IF p.dir = "" THEN "." ELSE p.dir
Extname(s) == ParsePath(s).e.ext
BaseSegments(s) == ParsePath(s).e.base
PathJoin(dir, name) == IF dir = "." THEN name ELSE dir \o "/" \o name

\* ocr.ts:183
MAX_FILE_SIZE == 5 * 1024 * 1024
\* ocr.ts:184
ALLOWED_EXTENSIONS == <<".jpg", ".jpeg", ".png", ".gif", ".webp">>

NoFile == [kind |-> "none"]
Directory == [kind |-> "dir"]
Regular(size, readable, data) ==
  [kind |-> "file", size |-> size, readable |-> readable, data |-> data]

\* The sections of an output file.
OcrSection(text) == [k |-> "OCR EXTRACTED TEXT", text |-> text]
LlmSection(text) == [k |-> "LLM ANALYSIS", text |-> text]

\* The directory before the server starts.
Disk0 ==
  [n \in Names |->
    CASE n \in {"scan.jpg", "scan-2.jpg"} -> Regular(2048, TRUE, <<>>)
      [] n = "scan.png" -> Regular(MAX_FILE_SIZE, TRUE, <<>>)
      [] n = "huge.jpg" -> Regular(MAX_FILE_SIZE + 1, TRUE, <<>>)
      [] n = "big.bmp" -> Regular(2 * MAX_FILE_SIZE, TRUE, <<>>)
      [] n \in {"locked.jpg", "locked.bmp"} -> Regular(2048, FALSE, <<>>)
      [] n = "x.txt" -> Directory
      [] n = "notes.txt" -> Regular(0, TRUE, <<>>)
      [] OTHER -> NoFile]

\* The file a path names (every path of the model lies in Cwd).
FileAt(fs, s) == fs[ParsePath(s).name]
existsSync(fs, s) == FileAt(fs, s).kind # "none"

-----------------------------------------------------------------------------
(* Messages on stdout.                                                     *)

\* ocr.ts:405  JSON.stringify leaves out an id that is undefined.
sendResponse(id, result) == [jsonrpc |-> "2.0", id |-> id, result |-> result]

\* ocr.ts:418
sendError(id, code, message) ==
  [jsonrpc |-> "2.0",
   id |-> IF Truthy(id) THEN id ELSE Str("error"),
   error |-> [code |-> code, message |-> message]]

IsErrorReply(m) == "error" \in DOMAIN m
IsResultReply(m) == "result" \in DOMAIN m

TextItem(text) == [type |-> "text", text |-> text]
\* The error block without its flag.
ErrorResultUnflagged(message) == [content |-> <<TextItem("Error: " \o message)>>]

\* The error block every catch of the tools builds (ocr.ts:806, ocr.ts:1322).
ErrorResult(message) == [content |-> <<TextItem("Error: " \o message)>>, isError |-> TRUE]
IsErrorResult(r) == "isError" \in DOMAIN r /\ r.isError

-----------------------------------------------------------------------------
(* The file store.                                                         *)

\* ocr.ts:466-473  the path of the output file of an image and a text.
OutputPath(imagePath, text) ==
  LET p == ParsePath(imagePath)
      baseNameWithoutExt == p.e.base
      hash == generateShortHash(text)
  IN PathJoin(Dirname(imagePath), Name(Entry(Append(baseNameWithoutExt, hash), ".txt")))

\* A save that adds the OCR section to the file that is there, where
\* writeFileSync replaces the file.
saveExtractedTextAppending(fs, imagePath, text, io) ==
  LET txtPath == OutputPath(imagePath, text)
      n == ParsePath(txtPath).name
  IN IF io = "ok"
     THEN [ok |-> TRUE, txtPath |-> txtPath,
           fs |-> [fs EXCEPT ![n] = IF @.kind = "file"
                                    THEN [@ EXCEPT !.data = Append(@, OcrSection(text))]
                                    ELSE Regular(0, TRUE, <<OcrSection(text)>>)]]
     ELSE [ok |-> FALSE, error |-> "Failed to save text file: " \o io, fs |-> fs]

\* ocr.ts:464  io is what writeFileSync does: "ok", or the error it throws.
\* The result is the path, or the error saveExtractedText throws.
saveExtractedText(fs, imagePath, text, io) ==
  LET txtPath == OutputPath(imagePath, text)
      n == ParsePath(txtPath).name
  IN IF io = "ok"
     THEN [ok |-> TRUE, txtPath |-> txtPath,
           fs |-> [fs EXCEPT ![n] = Regular(0, TRUE, <<OcrSection(text)>>)]]
     ELSE [ok |-> FALSE, error |-> "Failed to save text file: " \o io, fs |-> fs]

\* A write that replaces the content where appendFileSync adds to it.
appendFileSyncTruncating(fs, path, section, io) ==
  LET n == ParsePath(path).name
  IN IF fs[n].kind = "dir" \/ io # "ok"
     THEN [ok |-> FALSE, error |-> io, fs |-> fs]
     ELSE [ok |-> TRUE, fs |-> [fs EXCEPT ![n] = Regular(0, TRUE, <<section>>)]]

\* An append that leaves out a section the file already holds.
appendFileSyncOnce(fs, path, section, io) ==
  LET n == ParsePath(path).name
      f == fs[n]
  IN IF f.kind = "dir" \/ io # "ok"
     THEN [ok |-> FALSE, error |-> io, fs |-> fs]
     ELSE [ok |-> TRUE,
           fs |-> [fs EXCEPT ![n] =
                     IF f.kind = "none" THEN Regular(0, TRUE, <<section>>)
                     ELSE IF \E i \in DOMAIN f.data : f.data[i] = section THEN f
                     ELSE [f EXCEPT !.data = Append(@, section)]]]

\* fs.appendFileSync(path, section): creates the file when it is missing.
appendFileSync(fs, path, section, io) ==
  LET n == ParsePath(path).name
      f == fs[n]
  IN IF f.kind = "dir"
     THEN [ok |-> FALSE, error |-> "EISDIR: illegal operation on a directory, open '" \o path \o "'", fs |-> fs]
     ELSE IF io # "ok"
     THEN [ok |-> FALSE, error |-> io, fs |-> fs]
     ELSE [ok |-> TRUE,
           fs |-> [fs EXCEPT ![n] =
                     IF f.kind = "none" THEN Regular(0, TRUE, <<section>>)
                     ELSE [f EXCEPT !.data = Append(@, section)]]]

\* The suffix check left out.
EndsWithAnything(path) == TRUE

\* ocr.ts:1303  text_file_path.endsWith('.txt')
EndsWithTxt(path) == Extname(path) = ".txt"

\* ocr.ts:1292  the result of the tool and the directory it leaves.
handleAppendAnalysis(fs, args, io) ==
  IF args.t \in {"undefined", "null"}
  THEN [result |-> ErrorResult("Cannot destructure property 'text_file_path' of 'args' as it is "
                               \o Template(args) \o "."), fs |-> fs]
  ELSE
    LET text_file_path == Get(args, "text_file_path")
        analysis == Get(args, "analysis")
    IN IF ~(IsString(text_file_path) /\ existsSync(fs, text_file_path.s))
       THEN [result |-> ErrorResult("Text file not found: " \o Template(text_file_path)), fs |-> fs]
       ELSE IF ~EndsWithTxt(text_file_path.s)
       THEN [result |-> ErrorResult("File must be a .txt file"), fs |-> fs]
       ELSE
         LET a == appendFileSync(fs, text_file_path.s, LlmSection(Template(analysis)), io)
         IN IF a.ok
            THEN [result |-> [content |-> <<TextItem("Analysis has been appended to: "
                                                     \o text_file_path.s)>>],
                  fs |-> a.fs]
            ELSE [result |-> ErrorResult(a.error), fs |-> fs]

\* The LLM ANALYSIS sections of the file a path names (0 for no file).
SectionsAt(fs, path) ==
  LET f == FileAt(fs, path)
  IN IF f.kind = "file" THEN Cardinality({i \in DOMAIN f.data : f.data[i].k = "LLM ANALYSIS"}) ELSE 0

-----------------------------------------------------------------------------
(* The extraction pipeline: the checks before the remote call.             *)

RECURSIVE JoinWith(_, _)
JoinWith(strs, sep) ==
  IF Len(strs) = 0 THEN ""
  ELSE IF Len(strs) = 1 THEN strs[1]
  ELSE strs[1] \o sep \o JoinWith(Tail(strs), sep)

\* (size / (1024 * 1024)).toFixed(2)
ToFixed2MB(size) ==
  LET q == (size * 200 + 1024 * 1024) \div (2 * 1024 * 1024)
      frac == q % 100
  IN ToString(q \div 100) \o "." \o (IF frac < 10 THEN "0" ELSE "") \o ToString(frac)

Includes(seq, x) == \E i \in DOMAIN seq : seq[i] = x

Thrown(message) == [ok |-> FALSE, error |-> message]

\* The size check left out.
TooLargeNever(stats) == FALSE

\* ocr.ts:637  the size check.
TooLarge(stats) == stats.size > MAX_FILE_SIZE

\* The extension check left out.
AllowedTypeAny(ext) == TRUE

\* ocr.ts:648  the extension check.
AllowedType(ext) == Includes(ALLOWED_EXTENSIONS, ext)

\* The checks with the extension looked at first.
FileChecksExtensionFirst(stats, ext, imagePath) ==
  IF ~AllowedType(ext)
  THEN Thrown("Invalid file type: " \o ext \o ". Allowed types: "
              \o JoinWith(ALLOWED_EXTENSIONS, ", "))
  ELSE IF stats.kind # "file"
  THEN Thrown("File stats error: Not a file: " \o imagePath)
  ELSE IF TooLarge(stats)
  THEN Thrown("File stats error: File too large: " \o ToFixed2MB(stats.size)
              \o "MB (max: " \o ToString(MAX_FILE_SIZE \div (1024 * 1024)) \o "MB)")
  ELSE IF ~stats.readable
  THEN Thrown("File read error: EACCES: permission denied, open '" \o imagePath \o "'")
  ELSE [ok |-> TRUE, imagePath |-> imagePath]

\* ocr.ts:630-662  the checks of a path that exists, in the order of the
\* code: statSync (a regular file, its size), the extension, the read probe.
FileChecks(stats, ext, imagePath) ==
  IF stats.kind # "file"
  THEN Thrown("File stats error: Not a file: " \o imagePath)
  ELSE IF TooLarge(stats)
  THEN Thrown("File stats error: File too large: " \o ToFixed2MB(stats.size)
              \o "MB (max: " \o ToString(MAX_FILE_SIZE \div (1024 * 1024)) \o "MB)")
  ELSE IF ~AllowedType(ext)
  THEN Thrown("Invalid file type: " \o ext \o ". Allowed types: "
              \o JoinWith(ALLOWED_EXTENSIONS, ", "))
  ELSE IF ~stats.readable
  THEN Thrown("File read error: EACCES: permission denied, open '" \o imagePath \o "'")
  ELSE [ok |-> TRUE, imagePath |-> imagePath]

\* ocr.ts:577-673  everything extractTextFromImage does before it spawns
\* curl: the error its catch turns into an error block, or the resolved path.
ValidateImage(fs, key, args) ==
  IF ~Truthy(key)
  THEN Thrown("OpenAI API key is not available. Please set the environment variable.")
  ELSE IF ~Truthy(args)
  THEN Thrown("Arguments are required but were undefined")
  ELSE
    LET image_path == Get(args, "image_path")
    IN IF ~Truthy(image_path)
       THEN Thrown("image_path is required but was missing")
       ELSE IF ~IsString(image_path)
       THEN Thrown("The \"paths[0]\" argument must be of type string. Received type "
                   \o image_path.t)
       ELSE
         LET imagePath == Resolve(image_path.s)
             stats == FileAt(fs, imagePath)
             ext == Extname(imagePath)
         IN IF stats.kind = "none"
            THEN Thrown("File access error: File not found at path: " \o imagePath)
            ELSE FileChecks(stats, ext, imagePath)

-----------------------------------------------------------------------------
(* The remote call and what its end does.                                  *)

\* A completion text is its paragraphs (the pieces between blank lines); a
\* paragraph is its first word, when that ends in a colon, and the rest.
Para(head, rest) == [head |-> head, rest |-> rest]
ParaText(p) == p.head \o p.rest

\* The letters a match under the flag i folds.
LowerOf ==
  LET upper == "ABCDEFGHIJKLMNOPQRSTUVWXYZ"
      lower == "abcdefghijklmnopqrstuvwxyz"
  IN [c \in {SubSeq(upper, i, i) : i \in 1..26} |->
        LET i == CHOOSE i \in 1..26 : SubSeq(upper, i, i) = c IN SubSeq(lower, i, i)]

RECURSIVE ToLowerCase(_)
ToLowerCase(s) ==
  IF Len(s) = 0 THEN s
  ELSE IF Len(s) = 1 THEN (IF s \in DOMAIN LowerOf THEN LowerOf[s] ELSE s)
  ELSE LET half == Len(s) \div 2
       IN ToLowerCase(SubSeq(s, 1, half)) \o ToLowerCase(SubSeq(s, half + 1, Len(s)))

\* ocr.ts:754  the alternatives of the lookahead, under the flag i.
StartsHeading(p) ==
  ToLowerCase(p.head) \in {"analysis:", "interpretation:", "summary:", "understanding:"}

Texts(paras) == [i \in DOMAIN paras |-> ParaText(paras[i])]

\* The analysis cut at its second heading: parts[1] where the code joins
\* parts.slice(1).
SplitResponseFirstPartOnly(content) ==
  LET fullResponse == IF content = <<>> THEN <<Para("", "No text extracted")>> ELSE content
      cuts == {i \in 2..Len(fullResponse) : StartsHeading(fullResponse[i])}
      cut == IF cuts = {} THEN Len(fullResponse) + 1
             ELSE CHOOSE i \in cuts : \A j \in cuts : i <= j
      next == IF \E j \in cuts : j > cut
              THEN CHOOSE i \in cuts : i > cut /\ \A j \in cuts : j > cut => i <= j
              ELSE Len(fullResponse) + 1
  IN [extractedText |-> JoinWith(Texts(SubSeq(fullResponse, 1, cut - 1)), "\n\n"),
      analysis |-> JoinWith(Texts(SubSeq(fullResponse, cut, next - 1)), "\n\n")]

\* ocr.ts:751-756  parts[0] and parts.slice(1).join('\n\n')
SplitResponse(content) ==
  LET fullResponse == IF content = <<>> THEN <<Para("", "No text extracted")>> ELSE content
      cuts == {i \in 2..Len(fullResponse) : StartsHeading(fullResponse[i])}
      cut == IF cuts = {} THEN Len(fullResponse) + 1
             ELSE CHOOSE i \in cuts : \A j \in cuts : i <= j
  IN [extractedText |-> JoinWith(Texts(SubSeq(fullResponse, 1, cut - 1)), "\n\n"),
      analysis |-> JoinWith(Texts(SubSeq(fullResponse, cut, Len(fullResponse))), "\n\n")]

\* ocr.ts:754  String.prototype.split with the regular expression
\* /\n\n(?=Analysis:|Interpretation:|Summary:|Understanding:)/i on the
\* characters of s: the pieces between the separators, a separator being a
\* blank line that one of the four headings follows.
RECURSIVE RegExpSplit(_)
RegExpSplit(s) ==
  LET HeadingAt(i) ==
        \E h \in {"analysis:", "interpretation:", "summary:", "understanding:"} :
          /\ i + Len(h) - 1 <= Len(s)
          /\ ToLowerCase(SubSeq(s, i, i + Len(h) - 1)) = h
      separators == {i \in 1..(Len(s) - 1) : SubSeq(s, i, i + 1) = "\n\n" /\ HeadingAt(i + 2)}
  IN IF separators = {} THEN <<s>>
     ELSE LET first == CHOOSE i \in separators : \A j \in separators : i <= j
          IN <<SubSeq(s, 1, first - 1)>> \o RegExpSplit(SubSeq(s, first + 2, Len(s)))

\* ocr.ts:751-756 on the characters of the completion text `content`.
SplitText(content) ==
  LET fullResponse == IF content = "" THEN "No text extracted" ELSE content
      parts == RegExpSplit(fullResponse)
  IN [extractedText |-> parts[1],
      analysis |-> IF Len(parts) > 1 THEN JoinWith(Tail(parts), "\n\n") ELSE ""]

\* What a curl child process can end with.
Exit(code) == [kind |-> "exit", code |-> code]
Garbage == [kind |-> "garbage"]
ApiError(message) == [kind |-> "error", message |-> message]
NoChoices == [kind |-> "nochoices"]
Completion(content) == [kind |-> "completion", content |-> content]

\* ocr.ts:709-731  what curl -s -v has written to stderr when it exits with
\* `code`: the trace of the transfer, which has the request headers (the
\* Authorization header of ocr.ts:713 among them) once the request was sent.
\* Code 6 (the host does not resolve) ends before any request is sent.
ErrorOutput(key, code) ==
  IF code = 6
  THEN "* Could not resolve host: api.openai.com"
  ELSE "> POST /v1/chat/completions HTTP/2\n> Authorization: Bearer " \o key
       \o "\n* Recv failure: Connection reset by peer"

Rejected(message) == [settled |-> "rejected", message |-> message]

\* The record with the text stored and the path left as it was.
RecordTextOnly(cs, imagePath, extractedText) ==
  [cs EXCEPT !.lastOcrResult = Str(extractedText)]

\* ocr.ts:760-762  the two stores of the 'close' handler, one after the other
\* with nothing between them.
RecordExtraction(cs, imagePath, extractedText) ==
  [cs EXCEPT !.lastOcrResult = Str(extractedText), !.lastImagePath = Str(imagePath)]

\* ocr.ts:733-802  the 'close' handler of the curl of `call`: how the promise
\* of extractTextFromImage settles (s), the directory (fs) and the
\* conversation state (cs) it leaves, and the extraction result it saved (x).
\* io and io2 are what the write and the append do.
OnCurlClose(fs, cs, call, o, io, io2) ==
  CASE o.kind = "exit" ->
         [s |-> Rejected("curl process exited with code " \o ToString(o.code) \o ": "
                         \o ErrorOutput(call.key, o.code)),
          fs |-> fs, cs |-> cs, x |-> {}]
    [] o.kind = "garbage" ->
         [s |-> Rejected("Failed to parse OpenAI response: Unexpected token < in JSON at position 0"),
          fs |-> fs, cs |-> cs, x |-> {}]
    [] o.kind = "error" ->
         [s |-> Rejected("OpenAI API error: " \o o.message), fs |-> fs, cs |-> cs, x |-> {}]
    [] o.kind = "nochoices" ->
         [s |-> Rejected("Failed to parse OpenAI response: Cannot read properties of undefined (reading '0')"),
          fs |-> fs, cs |-> cs, x |-> {}]
    [] o.kind = "completion" ->
         LET parts == SplitResponse(o.content)
             extractedText == parts.extractedText
             cs1 == RecordExtraction(cs, call.imagePath, extractedText)
             save == saveExtractedText(fs, call.imagePath, extractedText, io)
         IN IF save.ok
            THEN [s |-> [settled |-> "resolved",
                         result |-> [content |-> <<TextItem(extractedText),
                                                   TextItem("\n\nText has been saved to: "
                                                            \o save.txtPath)>>]],
                  fs |-> IF parts.analysis # ""
                         THEN handleAppendAnalysis(save.fs,
                                Obj([text_file_path |-> Str(save.txtPath),
                                     analysis |-> Str(parts.analysis)]), io2).fs
                         ELSE save.fs,
                  cs |-> cs1,
                  x |-> {[imagePath |-> call.imagePath, extractedText |-> extractedText,
                          analysisText |-> parts.analysis, savedFilePath |-> save.txtPath]}]
            ELSE [s |-> [settled |-> "resolved",
                         result |-> [content |-> <<TextItem(extractedText),
                                                   TextItem("\n\nWarning: Failed to save text file: "
                                                            \o save.error)>>]],
                  fs |-> fs, cs |-> cs1, x |-> {}]

-----------------------------------------------------------------------------
(* Late analysis: notifications/llm_response.                              *)

\* fs.readdirSync(dir) for the directory of the images.
readdirSync(fs) == SelectSeq(DirOrder, LAMBDA n : fs[n].kind # "none")

\* file.startsWith(baseNameWithoutExt + '-') && file.endsWith('.txt')
MatchesBase(file, base) ==
  LET e == ParseName(file)
  IN /\ Len(e.base) > Len(base)
     /\ SubSeq(e.base, 1, Len(base)) = base
     /\ e.ext = ".txt"

\* JSON.stringify(v), and JSON.stringify(v, null, 2) for the values that are
\* not objects.
Stringify(v) ==
  CASE v.t = "undefined" -> Undef
    [] v.t = "string" -> Str(JsonString(v.s))
    [] v.t = "object" -> Str("{...}")
    [] OTHER -> Str(Template(v))

\* ocr.ts:489
appendLlmResponseToFile(fs, txtPath, response, io) ==
  LET formattedResponse == IF IsString(response) THEN response ELSE Stringify(response)
  IN appendFileSync(fs, txtPath, LlmSection(Template(formattedResponse)), io).fs

\* The first of the matching files picked where the code picks the last.
CorrelatedFileFirst(fs, lastImagePath) ==
  LET matchingFiles == SelectSeq(readdirSync(fs),
                                 LAMBDA f : MatchesBase(f, BaseSegments(lastImagePath)))
  IN IF Len(matchingFiles) > 0
     THEN PathJoin(Dirname(lastImagePath), matchingFiles[1])
     ELSE ""

\* ocr.ts:533-542  the file logLlmResponse picks for lastImagePath, "" for none.
CorrelatedFile(fs, lastImagePath) ==
  LET dir == Dirname(lastImagePath)
      baseNameWithoutExt == BaseSegments(lastImagePath)
      matchingFiles == SelectSeq(readdirSync(fs), LAMBDA f : MatchesBase(f, baseNameWithoutExt))
  IN IF Len(matchingFiles) > 0
     THEN PathJoin(dir, matchingFiles[Len(matchingFiles)])
     ELSE ""

\* ocr.ts:508
logLlmResponse(fs, cs, response, io) ==
  LET cs1 == [cs EXCEPT !.llmResponses = Append(@, [response |-> Stringify(response)])]
      txtPath == CorrelatedFile(fs, cs.lastImagePath.s)
  IN IF Truthy(cs.lastImagePath) /\ IsString(cs.lastImagePath) /\ txtPath # ""
        /\ FileAt(fs, txtPath).kind = "file"
     THEN [fs |-> appendLlmResponseToFile(fs, txtPath, response, io), cs |-> cs1]
     ELSE [fs |-> fs, cs |-> cs1]

-----------------------------------------------------------------------------
(* The registry and the introspection replies.                             *)

\* ocr.ts:185-187
SERVER_NAME == "openai-ocr-service"
SERVER_VERSION == "1.0.0"
PROTOCOL_VERSION == "2024-11-05"

\* ocr.ts:314, ocr.ts:331
OCR_TOOL ==
  [name |-> "extract_text_from_image",
   description |-> "Extract text from images using OpenAI's vision capabilities.",
   parameters |-> [type |-> "object", properties |-> <<"image_path">>,
                   required |-> <<"image_path">>]]
APPEND_ANALYSIS_TOOL ==
  [name |-> "append_analysis",
   description |-> "Append LLM analysis to an OCR text file.",
   parameters |-> [type |-> "object", properties |-> <<"text_file_path", "analysis">>,
                   required |-> <<"text_file_path", "analysis">>]]

\* response.clientInfo is set only `if (clientInfo)`.
WithClientInfo(response, info) ==
  IF Truthy(info) THEN [response EXCEPT !.clientInfo = info] ELSE response

\* ocr.ts:835-838  what handleInitialize leaves in clientInfo.
StoredClientInfo(info, params) ==
  IF Truthy(params) /\ Truthy(Get(params, "clientInfo")) THEN Get(params, "clientInfo") ELSE info

\* ocr.ts:842-865  (clientInfo: Undef stands for a response without the key)
InitializeResponse(info) ==
  WithClientInfo(
    [protocolVersion |-> PROTOCOL_VERSION,
     serverInfo |-> [name |-> SERVER_NAME, version |-> SERVER_VERSION],
     capabilities |->
       [tools |-> (OCR_TOOL.name :> [description |-> OCR_TOOL.description,
                                     parameters |-> OCR_TOOL.parameters])
                  @@ (APPEND_ANALYSIS_TOOL.name :>
                        [description |-> APPEND_ANALYSIS_TOOL.description,
                         parameters |-> APPEND_ANALYSIS_TOOL.parameters])],
     clientInfo |-> Undef], info)

\* ocr.ts:877-891
ListOfferingsResponse(info) ==
  WithClientInfo(
    [protocolVersion |-> PROTOCOL_VERSION,
     serverInfo |-> [name |-> SERVER_NAME, version |-> SERVER_VERSION],
     offerings |-> [tools |-> <<OCR_TOOL, APPEND_ANALYSIS_TOOL>>],
     clientInfo |-> Undef], info)

\* The list of the server before append_analysis was registered.
ToolsListResponseOcrOnly ==
  [tools |-> << [name |-> OCR_TOOL.name, description |-> OCR_TOOL.description,
                 inputSchema |-> [type |-> "object", properties |-> <<"image_path">>,
                                  required |-> <<"image_path">>],
                 outputSchema |-> [type |-> "object", properties |-> <<"content">>]] >>]

\* ocr.ts:993-1070
ToolsListResponse ==
  [tools |-> << [name |-> OCR_TOOL.name, description |-> OCR_TOOL.description,
                 inputSchema |-> [type |-> "object", properties |-> <<"image_path">>,
                                  required |-> <<"image_path">>],
                 outputSchema |-> [type |-> "object", properties |-> <<"content">>]],
                [name |-> APPEND_ANALYSIS_TOOL.name,
                 description |-> APPEND_ANALYSIS_TOOL.description,
                 inputSchema |-> [type |-> "object",
                                  properties |-> <<"text_file_path", "analysis">>,
                                  required |-> <<"text_file_path", "analysis">>],
                 outputSchema |-> [type |-> "object", properties |-> <<"content">>]] >>]

-----------------------------------------------------------------------------
(* The two output streams.                                                 *)

\* A diagnostic written to stdout, as console.log would.
logToStdout(message) == [stream |-> "stdout", text |-> message \o "\n"]

\* ocr.ts:357  console.error: one line on stderr (its timestamp is left out).
log(message) == [stream |-> "stderr", text |-> message \o "\n"]

\* ocr.ts:411, ocr.ts:427  process.stdout.write: one chunk on stdout.
StdoutWrite(text) == [stream |-> "stdout", text |-> text]

Member(key, json) == "\"" \o key \o "\":" \o json
JsonList(items) == "[" \o JoinWith(items, ",") \o "]"
JsonValue(v) ==
  CASE v.t = "string" -> JsonString(v.s)
    [] v.t = "number" -> ToString(v.n)
    [] v.t = "null" -> "null"
    [] OTHER -> "{...}"

\* JSON.stringify of a result: that of a tool (its content items and
\* isError) or one of the introspection results, their schemas left out.
ResultJson(r) ==
  LET ToolJson(tool) ==
        "{" \o Member("name", JsonString(tool.name)) \o ","
            \o Member("description", JsonString(tool.description)) \o "}"
      ServerJson ==
        Member("protocolVersion", JsonString(r.protocolVersion)) \o ","
        \o Member("serverInfo", "{" \o Member("name", JsonString(r.serverInfo.name)) \o ","
                                    \o Member("version", JsonString(r.serverInfo.version)) \o "}")
      ClientJson ==
        IF r.clientInfo = Undef THEN ""
        ELSE "," \o Member("clientInfo", JsonValue(r.clientInfo))
  IN CASE "content" \in DOMAIN r ->
            "{" \o Member("content",
                          JsonList([i \in DOMAIN r.content |->
                                      "{" \o Member("type", JsonString(r.content[i].type)) \o ","
                                          \o Member("text", JsonString(r.content[i].text)) \o "}"]))
                \o (IF "isError" \in DOMAIN r THEN "," \o Member("isError", "true") ELSE "")
                \o "}"
       [] "tools" \in DOMAIN r ->
            "{" \o Member("tools", JsonList([i \in DOMAIN r.tools |-> ToolJson(r.tools[i])])) \o "}"
       [] "offerings" \in DOMAIN r ->
            "{" \o ServerJson \o ","
                \o Member("offerings",
                          "{" \o Member("tools", JsonList([i \in DOMAIN r.offerings.tools |->
                                                             ToolJson(r.offerings.tools[i])])) \o "}")
                \o ClientJson \o "}"
       [] "capabilities" \in DOMAIN r ->
            "{" \o ServerJson \o ","
                \o Member("capabilities",
                          "{" \o Member("tools",
                                        "{" \o Member(OCR_TOOL.name, "{...}") \o ","
                                            \o Member(APPEND_ANALYSIS_TOOL.name, "{...}") \o "}")
                              \o "}")
                \o ClientJson \o "}"
       [] OTHER -> "{...}"

\* JSON.stringify(response) + '\n'  (an undefined id is left out).
Wire(m) ==
  "{" \o Member("jsonrpc", JsonString(m.jsonrpc))
      \o (IF m.id = Undef THEN "" ELSE "," \o Member("id", JsonValue(m.id)))
      \o ","
      \o (IF "error" \in DOMAIN m
          THEN Member("error", "{" \o Member("code", ToString(m.error.code)) \o ","
                                   \o Member("message", JsonString(m.error.message)) \o "}")
          ELSE Member("result", ResultJson(m.result)))
      \o "}" \o "\n"

\* ocr.ts:405-429  what sendResponse and sendError, called with id, put on
\* the streams for the message m: the line on stdout, then a diagnostic.
Send(m, id) ==
  <<StdoutWrite(Wire(m)),
    log(IF "error" \in DOMAIN m
        THEN "Sent error for id: " \o Template(id) \o ", code: " \o ToString(m.error.code)
             \o ", message: " \o m.error.message
        ELSE "Sent response for id: " \o Template(id))>>

RECURSIVE SendAll(_, _)
SendAll(ms, id) == IF ms = <<>> THEN <<>> ELSE Send(Head(ms), id) \o SendAll(Tail(ms), id)

-----------------------------------------------------------------------------
(* The tool-call normalizer.                                               *)

\* The normalizer with its fourth and fifth case exchanged: {name, arguments}
\* is looked at before {image_path}.
ResolveToolsCallArgumentsFirst(params) ==
  LET none == [toolName |-> Undef, imagePath |-> Undef]
  IN IF IsString(params)
     THEN [toolName |-> Str(OCR_TOOL.name), imagePath |-> params]
     ELSE IF Truthy(Get(params, "name")) /\ IsString(Get(params, "params"))
     THEN [toolName |-> Get(params, "name"), imagePath |-> Get(params, "params")]
     ELSE IF /\ Truthy(Get(params, "name")) /\ Truthy(Get(params, "params"))
             /\ Truthy(Get(Get(params, "params"), "image_path"))
     THEN [toolName |-> Get(params, "name"),
           imagePath |-> Get(Get(params, "params"), "image_path")]
     ELSE IF Truthy(Get(params, "name")) /\ Truthy(Get(params, "arguments"))
     THEN [toolName |-> Get(params, "name"),
           imagePath |-> IF IsString(Get(params, "arguments"))
                         THEN Get(params, "arguments")
                         ELSE IF Truthy(Get(Get(params, "arguments"), "image_path"))
                         THEN Get(Get(params, "arguments"), "image_path")
                         ELSE Undef]
     ELSE IF Truthy(Get(params, "image_path"))
     THEN [toolName |-> Str(OCR_TOOL.name), imagePath |-> Get(params, "image_path")]
     ELSE none

\* ocr.ts:1089-1129  toolName and imagePath as handleToolsCall resolves them
\* from params (params is truthy here).
ResolveToolsCall(params) ==
  LET none == [toolName |-> Undef, imagePath |-> Undef]
  IN IF IsString(params)
     THEN [toolName |-> Str(OCR_TOOL.name), imagePath |-> params]
     ELSE IF Truthy(Get(params, "name")) /\ IsString(Get(params, "params"))
     THEN [toolName |-> Get(params, "name"), imagePath |-> Get(params, "params")]
     ELSE IF /\ Truthy(Get(params, "name")) /\ Truthy(Get(params, "params"))
             /\ Truthy(Get(Get(params, "params"), "image_path"))
     THEN [toolName |-> Get(params, "name"),
           imagePath |-> Get(Get(params, "params"), "image_path")]
     ELSE IF Truthy(Get(params, "image_path"))
     THEN [toolName |-> Str(OCR_TOOL.name), imagePath |-> Get(params, "image_path")]
     ELSE IF Truthy(Get(params, "name")) /\ Truthy(Get(params, "arguments"))
     THEN [toolName |-> Get(params, "name"),
           imagePath |-> IF IsString(Get(params, "arguments"))
                         THEN Get(params, "arguments")
                         ELSE IF Truthy(Get(Get(params, "arguments"), "image_path"))
                         THEN Get(Get(params, "arguments"), "image_path")
                         ELSE Undef]
     ELSE none

\* ocr.ts:1081-1158  what handleToolsCall does with params: the error it
\* sends at once, or the arguments it calls extractTextFromImage with.
ToolsCallPlan(params) ==
  IF ~Truthy(params)
  THEN [do |-> "error", code |-> -32602, message |-> "Invalid params: params is undefined"]
  ELSE
    LET r == ResolveToolsCall(params)
    IN IF ~Truthy(r.toolName)
       THEN [do |-> "error", code |-> -32602,
             message |-> "Invalid params: tool name could not be determined from params: "
                         \o Stringify(params).s]
       ELSE IF ~Truthy(r.imagePath)
       THEN [do |-> "error", code |-> -32602,
             message |-> "Invalid params: Please provide a path to a local image file as a simple string parameter"]
       ELSE IF r.toolName = Str(OCR_TOOL.name)
       THEN [do |-> "extract", args |-> Obj([image_path |-> r.imagePath])]
       ELSE [do |-> "error", code |-> -32601,
             message |-> "Tool not found: " \o Template(r.toolName)]

\* ocr.ts:902-928  the same for handleCallTool.
CallToolPlan(params) ==
  IF ~Truthy(params)
  THEN [do |-> "error", code |-> -32602, message |-> "Invalid params"]
  ELSE
    LET name == Get(params, "name")
        args == Get(params, "arguments")
    IN IF name = Str(OCR_TOOL.name)
       THEN [do |-> "extract", args |-> args]
       ELSE IF name = Str(APPEND_ANALYSIS_TOOL.name)
       THEN [do |-> "append", args |-> args]
       ELSE [do |-> "error", code |-> -32601, message |-> "Tool not found: " \o Template(name)]

-----------------------------------------------------------------------------
(* Input lines.                                                            *)

\* A line is text that JSON.parse rejects (the empty line is one), or the
\* value it parses to.
EmptyLine == [kind |-> "empty"]
GarbageLine == [kind |-> "garbage"]
Json(v) == [kind |-> "json", v |-> v]
NoLine == [kind |-> "none"]

\* A message; Undef stands for a key the message does not have.
Msg(id, method, params) == Json(Obj([id |-> id, method |-> method, params |-> params]))

\* A method name is split where 'notifications/' would end.
M(prefix, rest) == [prefix |-> prefix, rest |-> rest]
KnownMethods ==
  { M("", "initialize"), M("", "ListOfferings"), M("", "tools/list"), M("", "tools/call"),
    M("", "callTool"), M("", "resources/list"), M("", "notifications"),
    M("notifications/", "llm_response"), M("notifications/", "initialized"),
    M("notifications/", "exit"), M("notifications/", "cancelled") }
MethodString(m) == m.prefix \o m.rest
\* method.startsWith('notifications/')
MethodTable ==
  [s \in { MethodString(m) : m \in KnownMethods } |->
    CHOOSE m \in KnownMethods : MethodString(m) = s]
StartsWithNotifications(method) == MethodTable[method].prefix = "notifications/"

\* ocr.ts:1225-1231  JSON.parse, the destructuring or method.startsWith throws.
MainThrows(l) ==
  IF l.kind # "json" THEN TRUE
  ELSE IF l.v.t = "null" THEN TRUE
  ELSE ~IsString(Get(l.v, "method"))

IdOf(l) == Get(l.v, "id")
MethodOf(l) == Get(l.v, "method").s
ParamsOf(l) == Get(l.v, "params")

IsNotification(l) == ~MainThrows(l) /\ StartsWithNotifications(MethodOf(l))
IsMethod(l, method) == ~MainThrows(l) /\ MethodOf(l) = method

-----------------------------------------------------------------------------
(* The state machine.                                                      *)

NoCall == [req |-> 0]
NoOutcome == [kind |-> "none"]

\* What a step was: a line handled, the close of a curl, the end of stdin;
\* the tool function it called; whether it spawned a curl.
Ev(op, tool, spawned, call, outcome, io, io2) ==
  [op |-> op, tool |-> tool, spawned |-> spawned, call |-> call, outcome |-> outcome,
   io |-> io, io2 |-> io2]

Init ==
  /\ files = Disk0
  /\ conversationState = [lastOcrResult |-> Undef, lastImagePath |-> Undef, llmResponses |-> <<>>]
  /\ clientInfo = Null
  /\ OPENAI_API_KEY \in {Undef, Str("sk-live-0123456789abcdefghij")}
  /\ curl = {}
  /\ stdin = "open"
  /\ replies = <<>>
  /\ line = NoLine
  /\ wrote = <<>>
  /\ ev = Ev("start", "none", FALSE, NoCall, NoOutcome, "ok", "ok")
  /\ saved = {}

CanRead == stdin = "open" /\ Len(replies) < MaxLines

\* The effects of the handling of line l.
LineStep(l, out, fs, cs, info, cu, tool, io) ==
  /\ files' = fs
  /\ conversationState' = cs
  /\ clientInfo' = info
  /\ curl' = cu
  /\ wrote' = out
  /\ replies' = Append(replies, Len(out))
  /\ line' = l
  /\ ev' = Ev("line", tool, cu # curl, NoCall, NoOutcome, io, "ok")
  /\ UNCHANGED <<OPENAI_API_KEY, stdin, saved>>

\* ocr.ts:1269-1272
ParseFailure(l) ==
  /\ CanRead
  /\ MainThrows(l)
  /\ LineStep(l, <<sendError(Null, -32700, "Parse error or internal error")>>,
              files, conversationState, clientInfo, curl, "none", "ok")

\* The llm_response notification answered as a request would be.
LlmResponseAnswered(l, io) ==
  /\ CanRead
  /\ IsMethod(l, "notifications/llm_response")
  /\ LET r == logLlmResponse(files, conversationState, ParamsOf(l), io)
     IN LineStep(l, <<sendResponse(IdOf(l), [success |-> TRUE])>>,
                 r.fs, r.cs, clientInfo, curl, "none", io)

\* The notification handed to handleNotification, whose case for it calls
\* logLlmResponse and then append_analysis on the same file (ocr.ts:940-971),
\* where main calls logLlmResponse alone and returns.
LlmResponseViaHandleNotification(l, io) ==
  /\ CanRead
  /\ IsMethod(l, "notifications/llm_response")
  /\ LET r == logLlmResponse(files, conversationState, ParamsOf(l), io)
         last == r.cs.lastImagePath
         txtPath == IF Truthy(r.cs.lastOcrResult) /\ IsString(last) /\ Truthy(last)
                    THEN CorrelatedFile(r.fs, last.s) ELSE ""
         analysis == IF IsString(ParamsOf(l)) THEN ParamsOf(l) ELSE Stringify(ParamsOf(l))
         fs2 == IF txtPath = "" THEN r.fs
                ELSE handleAppendAnalysis(r.fs, Obj([text_file_path |-> Str(txtPath),
                                                     analysis |-> analysis]), io).fs
     IN LineStep(l, <<>>, fs2, r.cs, clientInfo, curl, "none", io)

\* ocr.ts:1233-1236
LlmResponse(l, io) ==
  /\ CanRead
  /\ IsMethod(l, "notifications/llm_response")
  /\ LET r == logLlmResponse(files, conversationState, ParamsOf(l), io)
     IN LineStep(l, <<>>, r.fs, r.cs, clientInfo, curl, "none", io)

\* ocr.ts:1237, ocr.ts:935-984  the other notifications are logged only.
Notification(l) ==
  /\ CanRead
  /\ IsNotification(l)
  /\ MethodOf(l) # "notifications/llm_response"
  /\ LineStep(l, <<>>, files, conversationState, clientInfo, curl, "none", "ok")

\* ocr.ts:1242, ocr.ts:822
Initialize(l) ==
  /\ CanRead
  /\ IsMethod(l, "initialize")
  /\ LET info == StoredClientInfo(clientInfo, ParamsOf(l))
     IN LineStep(l, <<sendResponse(IdOf(l), InitializeResponse(info))>>,
                 files, conversationState, info, curl, "none", "ok")

\* ocr.ts:1245, ocr.ts:873
ListOfferings(l) ==
  /\ CanRead
  /\ IsMethod(l, "ListOfferings")
  /\ LineStep(l, <<sendResponse(IdOf(l), ListOfferingsResponse(clientInfo))>>,
              files, conversationState, clientInfo, curl, "none", "ok")

\* ocr.ts:1255, ocr.ts:989
ToolsList(l) ==
  /\ CanRead
  /\ IsMethod(l, "tools/list")
  /\ LineStep(l, <<sendResponse(IdOf(l), ToolsListResponse)>>,
              files, conversationState, clientInfo, curl, "none", "ok")

\* ocr.ts:1265-1268
MethodNotSupported(l) ==
  /\ CanRead
  /\ ~MainThrows(l)
  /\ ~StartsWithNotifications(MethodOf(l))
  /\ MethodOf(l) \notin {"initialize", "ListOfferings", "callTool", "tools/list", "tools/call"}
  /\ LineStep(l, <<sendError(IdOf(l), -32601, "Method not supported: " \o MethodOf(l))>>,
              files, conversationState, clientInfo, curl, "none", "ok")

\* The curl a handler waits for: the line it serves, the id and the method
\* of the request, the resolved image path, the key in the request header.
Call(id, method, imagePath) ==
  [req |-> Len(replies) + 1, id |-> id, method |-> method, imagePath |-> imagePath,
   key |-> OPENAI_API_KEY.s]

\* A tool call, once main has stored the image path (cs) and the handler has
\* made its plan.
RunPlan(l, plan, cs, io) ==
  CASE plan.do = "error" ->
         LineStep(l, <<sendError(IdOf(l), plan.code, plan.message)>>,
                  files, cs, clientInfo, curl, "none", "ok")
    [] plan.do = "append" ->
         LET r == handleAppendAnalysis(files, plan.args, io)
         IN LineStep(l, <<sendResponse(IdOf(l), r.result)>>,
                     r.fs, cs, clientInfo, curl, APPEND_ANALYSIS_TOOL.name, io)
    [] plan.do = "extract" ->
         LET v == ValidateImage(files, OPENAI_API_KEY, plan.args)
         IN IF v.ok
            THEN /\ Cardinality(curl) < MaxInFlight
                 /\ LineStep(l, <<>>, files, cs, clientInfo,
                             curl \cup {Call(IdOf(l), MethodOf(l), v.imagePath)},
                             OCR_TOOL.name, "ok")
            ELSE LineStep(l, <<sendResponse(IdOf(l), ErrorResult(v.error))>>,
                          files, cs, clientInfo, curl, OCR_TOOL.name, "ok")

\* ocr.ts:1248-1253, ocr.ts:899
CallTool(l, io) ==
  /\ CanRead
  /\ IsMethod(l, "callTool")
  /\ LET image_path == GetOpt(GetOpt(ParamsOf(l), "arguments"), "image_path")
         cs == IF Truthy(image_path)
               THEN [conversationState EXCEPT !.lastImagePath = image_path]
               ELSE conversationState
     IN RunPlan(l, CallToolPlan(ParamsOf(l)), cs, io)

\* ocr.ts:1258-1263, ocr.ts:1078
ToolsCall(l) ==
  /\ CanRead
  /\ IsMethod(l, "tools/call")
  /\ LET image_path == GetOpt(ParamsOf(l), "image_path")
         cs == IF Truthy(image_path)
               THEN [conversationState EXCEPT !.lastImagePath = image_path]
               ELSE conversationState
     IN RunPlan(l, ToolsCallPlan(ParamsOf(l)), cs, "ok")

\* The 'close' events delivered in the order of the spawns: a curl closes
\* only when no older curl is in flight.
CanCloseOldest(call) == call \in curl /\ \A c \in curl : call.req <= c.req

\* ocr.ts:709, ocr.ts:733  every curl is a child process of its own with a
\* 'close' handler of its own: it can close whenever it is in flight.
CanClose(call) == call \in curl

\* ocr.ts:733-802 and the resumed handler, ocr.ts:1149-1154 or ocr.ts:911-916
CurlClose(call, o, io, io2) ==
  /\ CanClose(call)
  /\ LET r == OnCurlClose(files, conversationState, call, o, io, io2)
         reply == IF r.s.settled = "resolved"
                  THEN sendResponse(call.id, r.s.result)
                  ELSE sendError(call.id, -32000, "Error executing tool: " \o r.s.message)
     IN /\ files' = r.fs
        /\ conversationState' = r.cs
        /\ wrote' = <<reply>>
        /\ replies' = [replies EXCEPT ![call.req] = @ + 1]
        /\ ev' = Ev("close", OCR_TOOL.name, FALSE, call, o, io, io2)
        /\ saved' = saved \cup r.x
  /\ curl' = curl \ {call}
  /\ line' = NoLine
  /\ UNCHANGED <<clientInfo, OPENAI_API_KEY, stdin>>

\* ocr.ts:1276-1279  the end of stdin is logged and nothing else is done:
\* the curls that are in flight still close, no line is read any more.
RlClose ==
  /\ stdin = "open"
  /\ stdin' = "closed"
  /\ line' = NoLine
  /\ wrote' = <<>>
  /\ ev' = Ev("end", "none", FALSE, NoCall, NoOutcome, "ok", "ok")
  /\ UNCHANGED <<files, conversationState, clientInfo, OPENAI_API_KEY, curl, replies, saved>>

-----------------------------------------------------------------------------
(* The inputs of the model and its specifications.                         *)

Ids == {Undef, Num(0), Num(1), Str("a")}

\* What a write to the directory can do.
IoOutcomes == {"ok", "EACCES: permission denied"}

CompletionA == <<Para("", "Invoice 48251")>>
CompletionB == <<Para("", "Invoice 83450")>>
CompletionAWithAnalysis == <<Para("", "Invoice 48251"), Para("Analysis:", " paid in full")>>
CompletionTotal ==
  <<Para("", "Total: 10"), Para("SUMMARY:", " a bill"), Para("Analysis:", " paid in full")>>
CompletionHeadingFirst == <<Para("Analysis:", " none")>>
CompletionEmpty == <<>>

ExtractCall(path) == Obj([name |-> Str(OCR_TOOL.name), arguments |-> Obj([image_path |-> Str(path)])])
AppendCall(path, analysis) ==
  Obj([name |-> Str(APPEND_ANALYSIS_TOOL.name),
       arguments |-> Obj([text_file_path |-> Str(path), analysis |-> Str(analysis)])])

\* The lines of the dispatcher's specification: every id with every kind of
\* message.
Lines ==
  {EmptyLine, GarbageLine, Json(Null), Json(Num(5))}
  \cup { Msg(id, method, Undef) :
           id \in Ids,
           method \in {Undef, Str("initialize"), Str("ListOfferings"), Str("tools/list"),
                       Str("resources/list"), Str("notifications"),
                       Str("notifications/initialized"), Str("tools/call")} }
  \cup { Msg(id, Str("notifications/llm_response"), Str("Looks like an invoice")) : id \in Ids }
  \cup { Msg(id, Str("initialize"), Obj([clientInfo |-> Str("cursor")])) : id \in Ids }
  \cup { Msg(id, Str("tools/call"), params) :
           id \in Ids,
           params \in {Str("/d/scan.jpg"), Obj([image_path |-> Str("/d/ghost.jpg")]),
                       Obj([foo |-> Num(1)]),
                       Obj([name |-> Str("translate"), params |-> Str("/d/scan.jpg")])} }
  \cup { Msg(id, Str("callTool"), params) :
           id \in Ids,
           params \in {ExtractCall("/d/scan.jpg"), AppendCall("/d/notes.txt", "checked")} }

Outcomes == {Exit(6), Completion(CompletionAWithAnalysis)}

IoOf(o) == IF o.kind = "completion" THEN IoOutcomes ELSE {"ok"}
Io2Of(o, io) ==
  IF o.kind = "completion" /\ io = "ok" /\ SplitResponse(o.content).analysis # ""
  THEN IoOutcomes ELSE {"ok"}

Receive(L) ==
  \E l \in L :
    \/ ParseFailure(l)
    \/ \E io \in IoOutcomes : LlmResponse(l, io)
    \/ Notification(l)
    \/ Initialize(l)
    \/ ListOfferings(l)
    \/ ToolsList(l)
    \/ MethodNotSupported(l)
    \/ \E io \in IoOutcomes : CallTool(l, io)
    \/ ToolsCall(l)

Close(O) ==
  \E call \in curl, o \in O : \E io \in IoOf(o) : \E io2 \in Io2Of(o, io) :
    CurlClose(call, o, io, io2)

Next == Receive(Lines) \/ Close(Outcomes) \/ RlClose

Spec == Init /\ [][Next]_vars

\* The lines of the pipeline's specification: one id, every kind of image
\* path, and one line for each of the other handlers.
PipelineId == Num(7)
PipelineLines ==
  {GarbageLine}
  \cup { Msg(PipelineId, Str(method), Undef) :
           method \in {"initialize", "ListOfferings", "tools/list", "resources/list",
                       "notifications/initialized"} }
  \cup { Msg(Undef, Str("notifications/llm_response"), Str("Looks like an invoice")) }
  \cup { Msg(PipelineId, Str("tools/call"), Str(path)) :
           path \in {"/d/scan.jpg", "scan.png", "/d/ghost.jpg", "/d/x.txt", "/d/huge.jpg",
                     "/d/big.bmp", "/d/notes.txt", "/d/locked.jpg", "/d/locked.bmp"} }
  \cup { Msg(PipelineId, Str("callTool"), params) :
           params \in {ExtractCall("/d/scan.jpg"),
                       Obj([name |-> Str(OCR_TOOL.name)]),
                       Obj([name |-> Str(OCR_TOOL.name), arguments |-> Obj([foo |-> Num(1)])]),
                       Obj([name |-> Str(OCR_TOOL.name),
                            arguments |-> Obj([image_path |-> Num(5)])]),
                       AppendCall("/d/notes.txt", "checked")} }

PipelineOutcomes ==
  {Exit(6), Exit(56), Garbage, ApiError("Incorrect API key provided"), NoChoices,
   Completion(CompletionA), Completion(CompletionB), Completion(CompletionAWithAnalysis)}

NextPipeline == Receive(PipelineLines) \/ Close(PipelineOutcomes) \/ RlClose

SpecPipeline == Init /\ [][NextPipeline]_vars

\* The lines of the store's specification: extractions, append_analysis on
\* every kind of target, the late analysis, and one line for each of the
\* other handlers.
StoreId == Num(3)
AppendTargets ==
  {"/d/scan-e2c598a1.txt", "/d/notes.txt", "/d/ghost.txt", "/d/ghost.jpg", "/d/scan.jpg",
   "/d/x.txt"}
StoreLines ==
  {GarbageLine}
  \cup { Msg(StoreId, Str(method), Undef) :
           method \in {"initialize", "ListOfferings", "tools/list", "resources/list",
                       "notifications/initialized"} }
  \cup { Msg(Undef, Str("notifications/llm_response"), Str("Looks like an invoice")) }
  \cup { Msg(StoreId, Str("tools/call"), Str(path)) :
           path \in {"/d/scan.jpg", "/d/scan-2.jpg", "/d/ghost.jpg"} }
  \cup { Msg(StoreId, Str("callTool"), AppendCall(path, "checked")) : path \in AppendTargets }
  \cup { Msg(StoreId, Str("callTool"), AppendCall("/d/scan-e2c598a1.txt", "paid")) }

StoreOutcomes ==
  {Exit(6), Completion(CompletionA), Completion(CompletionTotal),
   Completion(CompletionAWithAnalysis)}

\* A directory that holds the output file of an extraction of an earlier run
\* of the server.
DiskOld ==
  [Disk0 EXCEPT !["scan-e2c598a1.txt"] = Regular(0, TRUE, <<OcrSection("Invoice 48251")>>)]

\* A directory that holds the output file of an extraction of scan-2.jpg of
\* an earlier run.
DiskOther ==
  [Disk0 EXCEPT !["scan-2-e2c598a1.txt"] = Regular(0, TRUE, <<OcrSection("Invoice 48251")>>)]

InitStore ==
  /\ files \in {Disk0, DiskOld, DiskOther}
  /\ conversationState = [lastOcrResult |-> Undef, lastImagePath |-> Undef, llmResponses |-> <<>>]
  /\ clientInfo = Null
  /\ OPENAI_API_KEY \in {Undef, Str("sk-live-0123456789abcdefghij")}
  /\ curl = {}
  /\ stdin = "open"
  /\ replies = <<>>
  /\ line = NoLine
  /\ wrote = <<>>
  /\ ev = Ev("start", "none", FALSE, NoCall, NoOutcome, "ok", "ok")
  /\ saved = {}

NextStore == Receive(StoreLines) \/ Close(StoreOutcomes) \/ RlClose

SpecStore == InitStore /\ [][NextStore]_vars

\* The lines and the completions of the specification of the split: the
\* extraction of one image under both methods, every kind of completion
\* text, and one line for each of the other handlers.
SplitId == Num(9)
SplitLines ==
  {GarbageLine}
  \cup { Msg(SplitId, Str(method), Undef) :
           method \in {"initialize", "ListOfferings", "tools/list", "resources/list",
                       "notifications/initialized"} }
  \cup { Msg(Undef, Str("notifications/llm_response"), Str("Looks like an invoice")) }
  \cup { Msg(SplitId, Str("tools/call"), Str("/d/scan.jpg")),
         Msg(SplitId, Str("callTool"), ExtractCall("/d/scan.jpg")) }

SplitOutcomes ==
  {Exit(6), Completion(CompletionA), Completion(CompletionAWithAnalysis),
   Completion(CompletionTotal), Completion(CompletionHeadingFirst), Completion(CompletionEmpty)}

NextSplit == Receive(SplitLines) \/ Close(SplitOutcomes) \/ RlClose

SpecSplit == Init /\ [][NextSplit]_vars

\* The lines of the normalizer's specification: every shape of params under
\* both methods, and one line for each of the other handlers.
CallId == Num(4)
Named(name, key, value) == Obj((key :> value) @@ [name |-> Str(name)])
ParamShapes ==
  {Undef, Str("/d/scan.jpg"), Obj([image_path |-> Str("/d/scan.jpg")]), Obj([foo |-> Num(1)]),
   Obj([name |-> Str("translate")]),
   AppendCall("/d/notes.txt", "checked")}
  \cup { Named(name, key, value) :
           name \in {OCR_TOOL.name, "translate"},
           key \in {"params", "arguments"},
           value \in {Str("/d/scan.jpg"), Obj([image_path |-> Str("/d/scan.jpg")]),
                      Obj([text |-> Str("hello")])} }
  \cup {Obj([name |-> Str("translate"), params |-> Str("/d/ghost.jpg"),
             image_path |-> Str("/d/scan.jpg")]),
        Obj([name |-> Str(OCR_TOOL.name), params |-> Obj([image_path |-> Str("/d/scan.jpg")]),
             image_path |-> Str("/d/ghost.jpg"), arguments |-> Str("/d/notes.txt")]),
        Obj([name |-> Str("translate"), image_path |-> Str("/d/scan.jpg"),
             arguments |-> Str("/d/ghost.jpg")]),
        Obj([name |-> Str(OCR_TOOL.name), params |-> Obj([text |-> Str("hello")]),
             arguments |-> Str("/d/scan.jpg")]),
        Obj([name |-> Str(OCR_TOOL.name), params |-> Str(""),
             image_path |-> Str("/d/scan.jpg")])}
CallLines ==
  {GarbageLine}
  \cup { Msg(CallId, Str(method), Undef) :
           method \in {"initialize", "ListOfferings", "tools/list", "resources/list",
                       "notifications/initialized"} }
  \cup { Msg(Undef, Str("notifications/llm_response"), Str("Looks like an invoice")) }
  \cup { Msg(CallId, Str(method), params) :
           method \in {"tools/call", "callTool"}, params \in ParamShapes }

CallOutcomes == {Exit(6), Completion(CompletionA)}

NextCalls == Receive(CallLines) \/ Close(CallOutcomes) \/ RlClose

SpecCalls == Init /\ [][NextCalls]_vars

\* The close of the curl of request r.
CloseOf(r) ==
  \E call \in curl, o \in CallOutcomes : \E io \in IoOf(o) : \E io2 \in Io2Of(o, io) :
    call.req = r /\ CurlClose(call, o, io, io2)

\* The normalizer's specification where the remote call of the first line
\* may never complete and every other remote call does: the service answers
\* or curl fails, and Node then emits the 'close' event of that child.
SpecHang == Init /\ [][NextCalls]_vars /\ \A r \in 2..(MaxLines + 1) : WF_vars(CloseOf(r))

-----------------------------------------------------------------------------
(* Vocabulary of the claims.                                               *)

LineHandled == ev.op = "line"
Closed == ev.op = "close"

\* The line parsed to a JSON object.
IsMessage(l) == l.kind = "json" /\ l.v.t = "object"
HasId(l) == IsMessage(l) /\ IdOf(l) # Undef
IsRequest(l) == HasId(l) /\ ~IsNotification(l)
RoutedMethods == {"initialize", "ListOfferings", "tools/list", "tools/call", "callTool"}

\* The arguments the handler of line l calls extractTextFromImage with.
ToolArgs(l) ==
  IF MethodOf(l) = "tools/call" THEN ToolsCallPlan(ParamsOf(l)).args
  ELSE CallToolPlan(ParamsOf(l)).args

\* What is wrong with the path of an extraction, read off the directory.
Defects(fs, args) ==
  IF ~Truthy(args) \/ ~Truthy(Get(args, "image_path")) THEN {"missing"}
  ELSE IF ~IsString(Get(args, "image_path")) THEN {"not a path"}
  ELSE LET path == Get(args, "image_path").s
           f == fs[ParsePath(path).name]
       IN IF f.kind = "none" THEN {"missing"}
          ELSE {"not a regular file" : x \in {1} \cap (IF f.kind # "file" THEN {1} ELSE {})}
               \cup {"too large" : x \in {1} \cap (IF f.kind = "file" /\ f.size > 5 * 1024 * 1024 THEN {1} ELSE {})}
               \cup {"extension" : x \in {1} \cap (IF ParsePath(path).e.ext \notin {".jpg", ".jpeg", ".png", ".gif", ".webp"} THEN {1} ELSE {})}
               \cup {"unreadable" : x \in {1} \cap (IF f.kind = "file" /\ ~f.readable THEN {1} ELSE {})}

\* The step answered the line with exactly one message.
OneReply == Len(wrote) = 1 /\ replies[Len(replies)] = 1

-----------------------------------------------------------------------------
(* C1: every request that is not a notification receives exactly one reply, *)
(* and the reply carries the id of the request, whatever the id and also    *)
(* when the dispatcher fails on the request; a reply is an error with the   *)
(* id null only when the id could not be determined.                        *)
C1_EveryRequestAnsweredOnceWithItsId ==
  /\ \A n \in DOMAIN replies : replies[n] <= 1
  /\ \A c \in curl : replies[c.req] = 0
  /\ (LineHandled /\ IsRequest(line)) =>
       IF ev.spawned
       THEN wrote = <<>> /\ \E c \in curl : c.req = Len(replies) /\ c.id = IdOf(line)
       ELSE OneReply /\ wrote[1].id = IdOf(line)
  /\ (LineHandled /\ HasId(line) /\ IdOf(line) # Null) =>
       \A i \in DOMAIN wrote : ~(IsErrorReply(wrote[i]) /\ wrote[i].id = Null)
  /\ Closed => Len(wrote) = 1 /\ replies[ev.call.req] = 1 /\ wrote[1].id = ev.call.id

(* C2: a line that is not JSON is answered with exactly one error reply of  *)
(* code -32700 and id null, and the dispatcher goes on reading.             *)
C2_ParseErrorRepliedWithNullId ==
  (LineHandled /\ line.kind = "garbage") =>
    /\ OneReply
    /\ IsErrorReply(wrote[1])
    /\ wrote[1].error.code = -32700
    /\ wrote[1].id = Null
    /\ stdin = "open"

(* C3: a message whose method begins with notifications/ causes no reply,   *)
(* neither at once nor later: nothing is written, and no curl is left that  *)
(* would answer it.                                                         *)
C3_NotificationsNeverAnswered ==
  (LineHandled /\ IsNotification(line)) =>
    /\ wrote = <<>>
    /\ replies[Len(replies)] = 0
    /\ ~ev.spawned
    /\ \A c \in curl : c.req # Len(replies)

\* An llm_response notification that carries an id arrives after an
\* extraction and is appended to the file of that extraction; no reply.
C3_Witness ==
  /\ LineHandled
  /\ IsMethod(line, "notifications/llm_response")
  /\ IdOf(line) = Num(1)
  /\ conversationState.lastImagePath = Str("/d/scan.jpg")
  /\ SectionsAt(files, "/d/scan-e2c598a1.txt") = 2
  /\ wrote = <<>>

(* C4: a message without an id is a notification and receives no response, *)
(* whatever its method.                                                     *)
C4_NoIdNoResponse ==
  (LineHandled /\ ~MainThrows(line) /\ IdOf(line) = Undef) =>
    /\ wrote = <<>>
    /\ ~ev.spawned

(* C5: a request whose method is none of the five routed methods and is no  *)
(* notification receives an error reply of code -32601 with the id of the   *)
(* request, and nothing else changes.                                       *)
C5_UnknownMethodRejectedWithItsId ==
  [][(LineHandled' /\ IsRequest(line') /\ ~MainThrows(line')
      /\ MethodOf(line') \notin RoutedMethods)
     => /\ OneReply'
        /\ IsErrorReply(wrote'[1])
        /\ wrote'[1].error.code = -32601
        /\ wrote'[1].id = IdOf(line')
        /\ UNCHANGED <<files, conversationState, clientInfo, curl, saved>>]_vars

-----------------------------------------------------------------------------
\* The extraction of ev.call ended because the remote call failed.
RemoteFailed == Closed /\ ev.outcome.kind \in {"exit", "error", "garbage", "nochoices"}

\* The reply is a result that holds an error block.
SoftError(m) ==
  /\ IsResultReply(m)
  /\ IsErrorResult(m.result)
  /\ Len(m.result.content) = 1
  /\ m.result.content[1].type = "text"

(* C6: when the remote call of an extraction fails (curl exits with a code *)
(* other than 0, the service answers with an error payload, or the answer  *)
(* cannot be parsed), the request is answered with a result that holds an  *)
(* error block and isError true, never with a JSON-RPC error reply.        *)
C6_RemoteFailureIsSoftError ==
  RemoteFailed => Len(wrote) = 1 /\ ~IsErrorReply(wrote[1]) /\ SoftError(wrote[1])

\* The extraction tool was invoked by the line and its path has a defect.
InvokedWithDefect ==
  /\ LineHandled
  /\ ev.tool = OCR_TOOL.name
  /\ Defects(files, ToolArgs(line)) # {}

(* C7: when the extraction tool is invoked with a path that is missing, no *)
(* regular file, larger than 5 MiB, of a disallowed extension or           *)
(* unreadable, the request is answered at once with a result that holds an *)
(* error block and isError true; no JSON-RPC error reply is written.       *)
C7_ValidationFailureIsSoftError ==
  InvokedWithDefect =>
    /\ OneReply
    /\ SoftError(wrote[1])
    /\ ~IsErrorReply(wrote[1])
    /\ wrote[1].id = IdOf(line)

\* A text file of no bytes is offered as an image: the extension is refused
\* in an error block.
C7_Witness ==
  /\ InvokedWithDefect
  /\ Truthy(OPENAI_API_KEY)
  /\ ParamsOf(line) = Str("/d/notes.txt")
  /\ Defects(files, ToolArgs(line)) = {"extension"}
  /\ wrote = <<sendResponse(PipelineId, ErrorResult(
                 "Invalid file type: .txt. Allowed types: .jpg, .jpeg, .png, .gif, .webp"))>>

\* The path of an extraction as the arguments of the tool.
ArgsOf(path) == Obj([image_path |-> Str(path)])

(* C8: a remote call is issued for an extraction only after every local    *)
(* validation of its path has passed (it exists, is a regular file of at   *)
(* most 5 MiB, has an allowed extension and can be read); a request that   *)
(* fails one of them causes no remote call, at once or later.              *)
C8_RemoteCallOnlyAfterValidation ==
  /\ \A c \in curl : Defects(files, ArgsOf(c.imagePath)) = {}
  /\ (LineHandled /\ ev.spawned) =>
       /\ ev.tool = OCR_TOOL.name
       /\ Defects(files, ToolArgs(line)) = {}
  /\ InvokedWithDefect => ~ev.spawned /\ \A c \in curl : c.req # Len(replies)
  /\ Closed => Defects(files, ArgsOf(ev.call.imagePath)) = {}

\* An image of exactly 5 MiB, named by a relative path, passes every
\* validation and its curl is spawned.
C8_Witness ==
  /\ LineHandled
  /\ ev.spawned
  /\ ParamsOf(line) = Str("scan.png")
  /\ files["scan.png"].size = 5 * 1024 * 1024
  /\ \E c \in curl : c.req = Len(replies) /\ c.imagePath = "/d/scan.png"

\* The reply names a saved file that exists and begins with the text.
NamesSavedFile(m) ==
  /\ IsResultReply(m)
  /\ ~IsErrorResult(m.result)
  /\ \E x \in saved :
       /\ x.imagePath = ev.call.imagePath
       /\ m.result.content[1].text = x.extractedText
       /\ m.result.content[2].text = "\n\nText has been saved to: " \o x.savedFilePath
       /\ existsSync(files, x.savedFilePath)
       /\ FileAt(files, x.savedFilePath).kind = "file"
       /\ Len(FileAt(files, x.savedFilePath).data) >= 1
       /\ FileAt(files, x.savedFilePath).data[1] = OcrSection(x.extractedText)

\* The extraction of ev.call ended with an answer of the service.
RemoteAnswered == Closed /\ ev.outcome.kind = "completion"

(* C9: for a valid image an extraction ends in exactly one of two          *)
(* outcomes: a result that names a saved file which exists at that moment  *)
(* and contains the extracted text, or an error block; a failure to save   *)
(* the file gives an error block.  Stated for the extractions the service  *)
(* answered, so that the failures of the remote call (C6) stay apart.      *)
C9_SavedFileOrErrorBlock ==
  RemoteAnswered =>
    /\ Len(wrote) = 1
    /\ NamesSavedFile(wrote[1]) \/ SoftError(wrote[1])
    /\ ev.io # "ok" => SoftError(wrote[1])

(* C10: for one source image the path of the output file is a function of  *)
(* the extracted text only: extractions of the same text are saved under   *)
(* the same path, extractions of different texts under different paths.    *)
C10_PathDeterminedByTextInjectively ==
  \A a, b \in saved :
    a.imagePath = b.imagePath =>
      ((a.extractedText = b.extractedText) <=> (a.savedFilePath = b.savedFilePath))

-----------------------------------------------------------------------------
\* The step ran append_analysis on its own request and the tool succeeded.
AppendSucceeded ==
  /\ LineHandled
  /\ ev.tool = APPEND_ANALYSIS_TOOL.name
  /\ Len(wrote) = 1
  /\ IsResultReply(wrote[1])
  /\ ~IsErrorResult(wrote[1].result)

\* The arguments of an append_analysis call.
AppendPath(l) == Get(Get(ParamsOf(l), "arguments"), "text_file_path")
AppendText(l) == Get(Get(ParamsOf(l), "arguments"), "analysis")

\* The file at path p is as the store wrote it for an extraction: the OCR
\* section of the text, and nothing else.
FreshFor(fs, p, x) ==
  /\ x.savedFilePath = p
  /\ FileAt(fs, p).kind = "file"
  /\ FileAt(fs, p).data = <<OcrSection(x.extractedText)>>

(* C11: after the store has written a fresh output file for the text T and *)
(* append_analysis then succeeds on it with the analysis A, the file is    *)
(* the OCR header with T followed by one analysis section that holds A;    *)
(* the header and T are unchanged.  The same for the analysis the          *)
(* extraction itself appends to the file it has just written.              *)
C11_AppendAfterSaveKeepsTextThenAnalysis ==
  [][/\ AppendSucceeded' =>
          \A x \in saved :
            FreshFor(files, AppendPath(line').s, x) =>
              FileAt(files', x.savedFilePath).data
                = <<OcrSection(x.extractedText), LlmSection(AppendText(line').s)>>
     /\ (Closed' /\ ev'.io = "ok" /\ ev'.io2 = "ok") =>
          \A x \in saved' \ saved :
            FileAt(files', x.savedFilePath).data
              = IF x.analysisText = "" THEN <<OcrSection(x.extractedText)>>
                ELSE <<OcrSection(x.extractedText), LlmSection(x.analysisText)>>]_vars

\* The output file of an extraction of this run, appended to by a callTool
\* request: text, then the analysis.
C11_Witness ==
  /\ AppendSucceeded
  /\ AppendPath(line) = Str("/d/scan-e2c598a1.txt")
  /\ \E x \in saved : x.savedFilePath = "/d/scan-e2c598a1.txt" /\ x.analysisText = ""
  /\ files["scan-e2c598a1.txt"].data
       = <<OcrSection("Invoice 48251"), LlmSection("checked")>>

\* The step ran append_analysis on a path.
AppendInvoked ==
  /\ LineHandled
  /\ ev.tool = APPEND_ANALYSIS_TOOL.name
  /\ IsString(AppendPath(line))

\* The one reply of the step is the error block with this message.
RepliedError(message) == wrote = <<sendResponse(IdOf(line), ErrorResult(message))>>
RepliesError(message) == wrote' = <<sendResponse(IdOf(line'), ErrorResult(message))>>

(* C12 as stated: append_analysis on a path that does not exist fails with *)
(* a file-not-found error, and on any path that does not end in .txt,      *)
(* whether or not it exists, with a format error; in both cases no file is *)
(* created and no file is modified.                                        *)
C12_AppendRefusesMissingAndNonTxt ==
  [][AppendInvoked' =>
       LET p == AppendPath(line').s
       IN /\ ~existsSync(files, p) =>
               RepliesError("Text file not found: " \o p) /\ files' = files
          /\ Extname(p) # ".txt" =>
               RepliesError("File must be a .txt file") /\ files' = files]_vars

(* C12 amended: append_analysis on a path that does not exist fails with a *)
(* file-not-found error, whatever its suffix; on a path that exists and    *)
(* does not end in .txt it fails with a format error; in both cases no     *)
(* file is created and no file is modified.                                *)
C12_AppendRefusesMissingThenNonTxt ==
  [][AppendInvoked' =>
       LET p == AppendPath(line').s
       IN /\ ~existsSync(files, p) =>
               RepliesError("Text file not found: " \o p) /\ files' = files
          /\ (existsSync(files, p) /\ Extname(p) # ".txt") =>
               RepliesError("File must be a .txt file") /\ files' = files]_vars

\* append_analysis on an image that exists is refused for its suffix and the
\* image is as it was.
C12_Witness ==
  /\ AppendInvoked
  /\ AppendPath(line) = Str("/d/scan.jpg")
  /\ RepliedError("File must be a .txt file")
  /\ files["scan.jpg"] = Disk0["scan.jpg"]

-----------------------------------------------------------------------------
\* The step handled a tool-call request.
IsToolCall(l) == IsMethod(l, "tools/call") \/ IsMethod(l, "callTool")
ToolCallHandled == LineHandled /\ IsToolCall(line)

\* The tools of the registry.
RegisteredTools == {OCR_TOOL.name, APPEND_ANALYSIS_TOOL.name}

\* params is {name: "append_analysis", arguments: {text_file_path, analysis}}
IsAppendCall(params) ==
  /\ params.t = "object"
  /\ Get(params, "name") = Str(APPEND_ANALYSIS_TOOL.name)
  /\ Get(params, "arguments").t = "object"
  /\ IsString(Get(Get(params, "arguments"), "text_file_path"))
  /\ IsString(Get(Get(params, "arguments"), "analysis"))

(* C13: a tool call whose params are {name: "append_analysis", arguments:  *)
(* {text_file_path, analysis}} is resolved to the append_analysis tool     *)
(* with exactly those arguments and the tool is invoked and its result     *)
(* sent, for a tools/call request as for a callTool request.               *)
C13_AppendCallInvokesAppend ==
  (ToolCallHandled /\ IsAppendCall(ParamsOf(line))) =>
    /\ ev.tool = APPEND_ANALYSIS_TOOL.name
    /\ OneReply
    /\ IsResultReply(wrote[1])
    /\ SectionsAt(files, AppendPath(line).s) >= 1 \/ IsErrorResult(wrote[1].result)

\* The tool name the handler of line l resolves params to (Undef for none).
ResolvedName(l) ==
  IF ~Truthy(ParamsOf(l)) THEN Undef
  ELSE IF MethodOf(l) = "tools/call" THEN ResolveToolsCall(ParamsOf(l)).toolName
  ELSE Get(ParamsOf(l), "name")

(* C14: whenever the normalizer resolves a tool call to a tool name that   *)
(* is no registered tool, the request is answered with an error reply of   *)
(* code -32601, never with -32602 and never with a tool result, whichever  *)
(* shape of params carried the name.                                       *)
C14_UnknownToolIsMethodNotFound ==
  (ToolCallHandled /\ IsString(ResolvedName(line))
     /\ ResolvedName(line).s \notin RegisteredTools) =>
    /\ OneReply
    /\ IsErrorReply(wrote[1])
    /\ wrote[1].error.code = -32601
    /\ ev.tool = "none"

\* What the handler of the other method plans for the params of line l.
SynonymPlan(l) ==
  IF MethodOf(l) = "tools/call" THEN CallToolPlan(ParamsOf(l)) ELSE ToolsCallPlan(ParamsOf(l))
PlanTool(plan) ==
  CASE plan.do = "extract" -> OCR_TOOL.name
    [] plan.do = "append" -> APPEND_ANALYSIS_TOOL.name
    [] OTHER -> "none"

(* C15: tools/call and callTool are synonyms: for every params value the   *)
(* two methods resolve to the same tool and the same arguments and give    *)
(* the same kind of reply, a result of that tool or an error with the same *)
(* code.  What a step did under one method is what the handler of the      *)
(* other method does with the same params.                                 *)
C15_ToolsCallAndCallToolAgree ==
  ToolCallHandled =>
    LET other == SynonymPlan(line)
    IN /\ ev.tool = PlanTool(other)
       /\ IF other.do = "error"
          THEN OneReply /\ IsErrorReply(wrote[1]) /\ wrote[1].error.code = other.code
          ELSE /\ ToolArgs(line) = other.args
               /\ \A i \in DOMAIN wrote : IsResultReply(wrote[i])

-----------------------------------------------------------------------------
\* The names of a list of tools, in its order.
ToolNames(tools) == [i \in DOMAIN tools |-> tools[i].name]
BothTools == <<"extract_text_from_image", "append_analysis">>

\* The step answered a request of this method with one result.
Answered(method) ==
  /\ LineHandled
  /\ IsMethod(line, method)
  /\ OneReply
  /\ IsResultReply(wrote[1])

SuppliedClientInfo(l) ==
  IF Truthy(ParamsOf(l)) /\ Truthy(Get(ParamsOf(l), "clientInfo"))
  THEN Get(ParamsOf(l), "clientInfo") ELSE Undef

(* C17: an initialize request is answered with the protocol version, the   *)
(* server identity and the capability map, and the clientInfo of the reply *)
(* is the identity that same request supplies: equal to it when it         *)
(* supplies one, absent when it supplies none, whatever earlier requests   *)
(* supplied.                                                               *)
C17_InitializeEchoesItsOwnClientInfo ==
  (LineHandled /\ IsRequest(line) /\ IsMethod(line, "initialize")) =>
    /\ Answered("initialize")
    /\ wrote[1].result.protocolVersion = PROTOCOL_VERSION
    /\ wrote[1].result.serverInfo = [name |-> SERVER_NAME, version |-> SERVER_VERSION]
    /\ wrote[1].result.clientInfo = SuppliedClientInfo(line)

-----------------------------------------------------------------------------
\* The place of a name in the order of the directory.
Rank(n) == CHOOSE i \in DOMAIN DirOrder : DirOrder[i] = n

\* The files of the directory that match {baseName}-*.txt for an image path.
Matching(fs, imagePath) ==
  { n \in Names : fs[n].kind # "none" /\ MatchesBase(n, BaseSegments(imagePath)) }

\* The last of a set of names.
LastOf(names) == CHOOSE n \in names : \A m \in names : Rank(m) <= Rank(n)

-----------------------------------------------------------------------------
\* The two fields of the correlation record an extraction writes.
Correlation(cs) == <<cs.lastImagePath, cs.lastOcrResult>>

(* C19: lastImagePath and lastOcrResult of the correlation record change   *)
(* only when an extraction completes: a tool call that the normalizer      *)
(* rejects, that fails validation or whose remote call fails leaves both   *)
(* unchanged, and so does a request that is still in flight.               *)
C19_CorrelationChangesOnlyOnCompletion ==
  [][Correlation(conversationState') # Correlation(conversationState) =>
       /\ Closed'
       /\ ev'.outcome.kind = "completion"
       /\ conversationState'.lastImagePath = Str(ev'.call.imagePath)
       /\ conversationState'.lastOcrResult
            = Str(SplitResponse(ev'.outcome.content).extractedText)]_vars

(* C20: no step deletes an output file: a file that exists, exists in      *)
(* every later state; and an extraction of an image that yields a text     *)
(* other than the texts saved for that image before adds a new file beside *)
(* the files of those texts.                                               *)
C20_OutputFilesOnlyAccumulate ==
  [][/\ \A n \in Names : files[n].kind # "none" => files'[n].kind # "none"
     /\ Closed' =>
          \A x \in saved' \ saved : \A y \in saved :
            (y.imagePath = x.imagePath /\ y.extractedText # x.extractedText) =>
              /\ x.savedFilePath # y.savedFilePath
              /\ existsSync(files', x.savedFilePath)
              /\ existsSync(files', y.savedFilePath)]_vars

-----------------------------------------------------------------------------
\* The id the handlers of the last step called sendResponse or sendError with.
SentId ==
  IF Closed THEN ev.call.id
  ELSE IF LineHandled /\ ~MainThrows(line) THEN IdOf(line)
  ELSE Null

\* What the last step put on the two streams, in order: the diagnostic its
\* handler begins with, then each message and the diagnostic that follows it.
Emitted ==
  <<log(CASE LineHandled -> "Received message"
          [] Closed -> IF ev.outcome.kind = "exit"
                       THEN "curl process exited with code " \o ToString(ev.outcome.code)
                       ELSE "Full OpenAI API response"
          [] ev.op = "end" -> "stdin was closed, but keeping process alive"
          [] OTHER -> "OpenAI OCR MCP Server ready and waiting for messages on stdin")>>
  \o SendAll(wrote, SentId)

OnStdout == SelectSeq(Emitted, LAMBDA c : c.stream = "stdout")

RECURSIVE Newlines(_)
Newlines(s) ==
  IF Len(s) <= 1
  THEN IF s = "\n" THEN 1 ELSE 0
  ELSE LET half == Len(s) \div 2
       IN Newlines(SubSeq(s, 1, half)) + Newlines(SubSeq(s, half + 1, Len(s)))

\* The text is one complete line that begins as a JSON-RPC object.
IsMessageLine(text) ==
  /\ Len(text) > 17
  /\ SubSeq(text, 1, 17) = "{\"jsonrpc\":\"2.0\","
  /\ SubSeq(text, Len(text) - 1, Len(text)) = "}\n"
  /\ Newlines(text) = 1

(* C21: what is written to stdout is a sequence of complete JSON-RPC       *)
(* messages, each ended by a newline and written in one piece: one chunk   *)
(* for each message, no newline inside a message, no diagnostic on stdout, *)
(* also while several extractions are in flight.                           *)
C21_StdoutHoldsOnlyMessageLines ==
  LET out == OnStdout
  IN /\ Len(out) = Len(wrote)
     /\ \A i \in DOMAIN out :
          /\ IsMessageLine(out[i].text)
          /\ out[i].text = Wire(wrote[i])

\* The reply of an extraction, whose text holds two newlines, is written
\* while another extraction is in flight.
C21_Witness ==
  /\ Closed
  /\ curl # {}
  /\ Len(wrote) = 1
  /\ IsResultReply(wrote[1])
  /\ wrote[1].result.content[2].text = "\n\nText has been saved to: /d/scan-e2c598a1.txt"
  /\ Newlines(wrote[1].result.content[2].text) = 2
  /\ Len(OnStdout) = 1

-----------------------------------------------------------------------------
\* ocr.ts:1168-1183, ocr.ts:1276-1279  The process runs as long as the event
\* loop holds a referenced handle: stdin until its end, the pipes of a curl
\* child until its close.  The keep-alive interval is unref'd, and the
\* handlers of 'close', uncaughtException and unhandledRejection only log.
Running == stdin = "open" \/ curl # {}

\* The step was a failure: a line the dispatcher threw on, a request
\* answered with an error, a remote call that was rejected.
FailureStep ==
  \/ LineHandled /\ MainThrows(line)
  \/ LineHandled /\ wrote # <<>> /\ (IsErrorReply(wrote[1]) \/ IsErrorResult(wrote[1].result))
  \/ Closed /\ ev.outcome.kind # "completion"

(* C22: after a malformed line, a failing request, a rejected remote call  *)
(* and the end of the input stream the server is still running; after the  *)
(* first three it still reads its input, so that a request that arrives is *)
(* dispatched.                                                             *)
C22_ServerSurvivesFailures ==
  /\ [][FailureStep' => stdin' = stdin]_vars
  /\ [](ev.op = "end" => Running)

\* The part of C22 that holds: no failure step ends the reading.
C22_FailuresDoNotEndReading == [][FailureStep' => stdin' = stdin]_vars


-----------------------------------------------------------------------------
\* What the handler of the tool call in `line` plans.
PlanOfLine ==
  IF MethodOf(line) = "tools/call" THEN ToolsCallPlan(ParamsOf(line))
  ELSE CallToolPlan(ParamsOf(line))

\* The append_analysis call with the arguments args fails: its target is no
\* string, does not exist, does not end in .txt, or the write fails.
AppendFails(args) ==
  LET p == GetOpt(args, "text_file_path")
  IN IF ~IsString(p) THEN TRUE
     ELSE ~existsSync(files, p.s) \/ ~EndsWithTxt(p.s) \/ ev.io # "ok"

\* The step is the failure of a request: the dispatcher threw on its line,
\* its method is not supported, the normalizer rejected its params, the
\* tool refused its arguments or could not write, or its remote call failed.
RequestFails ==
  \/ RemoteFailed
  \/ /\ LineHandled
     /\ IF MainThrows(line) THEN TRUE
        ELSE IF IsNotification(line) THEN FALSE
        ELSE IF MethodOf(line) \notin RoutedMethods THEN TRUE
        ELSE IF MethodOf(line) \notin {"tools/call", "callTool"} THEN FALSE
        ELSE LET plan == PlanOfLine
             IN CASE plan.do = "error" -> TRUE
                  [] plan.do = "extract" ->
                       ~ValidateImage(files, OPENAI_API_KEY, plan.args).ok
                  [] plan.do = "append" -> AppendFails(plan.args)

C23_WitnessInBand == LineHandled /\ RequestFails /\ SoftError(wrote[1])

-----------------------------------------------------------------------------
\* The five rules of the normalizer in their order: whether params matches
\* the rule, and the tool name and the path the rule takes from it.
Rules(params) ==
  LET name == Get(params, "name")
      inner == Get(params, "params")
      args == Get(params, "arguments")
  IN << [matches |-> IsString(params),
         toolName |-> Str(OCR_TOOL.name), imagePath |-> params],
        [matches |-> Truthy(name) /\ IsString(inner),
         toolName |-> name, imagePath |-> inner],
        [matches |-> Truthy(name) /\ Truthy(Get(inner, "image_path")),
         toolName |-> name, imagePath |-> Get(inner, "image_path")],
        [matches |-> Truthy(Get(params, "image_path")),
         toolName |-> Str(OCR_TOOL.name), imagePath |-> Get(params, "image_path")],
        [matches |-> Truthy(name) /\ Truthy(args) /\ IsString(args),
         toolName |-> name, imagePath |-> args],
        [matches |-> Truthy(name) /\ Truthy(Get(args, "image_path")),
         toolName |-> name, imagePath |-> Get(args, "image_path")] >>

MatchingRules(params) == {i \in DOMAIN Rules(params) : Rules(params)[i].matches}
FirstMatch(params) ==
  Rules(params)[CHOOSE i \in MatchingRules(params) : \A j \in MatchingRules(params) : i <= j]

\* The line was a tools/call request with params the handler looks into.
NormalizerRan == LineHandled /\ IsMethod(line, "tools/call") /\ Truthy(ParamsOf(line))

(* C24: for every params value of tools/call, the tool name and the path   *)
(* are those of the first rule that matches, in the order bare string,     *)
(* {name, params: string}, {name, params: {image_path}}, {image_path},     *)
(* {name, arguments}, and the handler acts on them: it calls the           *)
(* extraction with that path, or refuses a name that is no tool; when no   *)
(* rule matches, or the path is empty, the reply is an error of code       *)
(* -32602.                                                                 *)
C24_FirstMatchingRuleWins ==
  NormalizerRan =>
    LET params == ParamsOf(line)
    IN IF MatchingRules(params) = {} \/ ~Truthy(FirstMatch(params).imagePath)
       THEN OneReply /\ IsErrorReply(wrote[1]) /\ wrote[1].error.code = -32602
       ELSE LET r == FirstMatch(params)
            IN /\ ResolveToolsCall(params) = [toolName |-> r.toolName, imagePath |-> r.imagePath]
               /\ IF r.toolName = Str(OCR_TOOL.name)
                  THEN /\ ev.tool = OCR_TOOL.name
                       /\ ev.spawned =>
                            \E c \in curl : c.req = Len(replies) /\ c.imagePath = Resolve(r.imagePath.s)
                  ELSE OneReply /\ IsErrorReply(wrote[1]) /\ wrote[1].error.code = -32601

\* Params that match the fourth and the fifth rule: the fourth is taken, so
\* that the extraction runs on image_path under the name of the OCR tool.
C24_Witness ==
  /\ NormalizerRan
  /\ Cardinality(MatchingRules(ParamsOf(line))) >= 2
  /\ Get(ParamsOf(line), "name") = Str("translate")
  /\ ev.spawned
  /\ \E c \in curl : c.req = Len(replies) /\ c.imagePath = "/d/scan.jpg"

-----------------------------------------------------------------------------
\* Request r waits for its remote call.
InFlight(r) == \E c \in curl : c.req = r

(* C25: the dispatcher reads on while an extraction waits for its remote   *)
(* call.  When the remote call of the first request never completes, every *)
(* later request is still answered: a request that is not in flight has    *)
(* its reply from the step that read it, unless it was a notification or   *)
(* waits itself, and a later request in flight is eventually answered.     *)
(* That two extractions can be in flight, and that the later one can be    *)
(* answered first, is the state of the witness.                            *)
C25_HangDelaysOnlyItsOwnReply ==
  /\ [](LineHandled /\ curl # {} /\ IsRequest(line) /\ ~InFlight(Len(replies))
          => replies[Len(replies)] = 1)
  /\ \A r \in 2..(MaxLines + 1) : InFlight(r) ~> (~InFlight(r) /\ r \in DOMAIN replies /\ replies[r] = 1)

\* The second request is answered while the first, received before it, still
\* waits for its curl: both were in flight in the state before.
C25_Witness ==
  /\ Closed
  /\ ev.call.req = 2
  /\ replies[2] = 1
  /\ InFlight(1)
  /\ replies[1] = 0

-----------------------------------------------------------------------------
\* The checks of the pipeline in their order, and how the error of each
\* begins.
CheckOrder == <<"missing", "not a regular file", "too large", "extension", "unreadable">>
ErrorOfCheck ==
  [c \in {"missing", "not a regular file", "too large", "extension", "unreadable"} |->
    CASE c = "missing" -> "Error: File access error: File not found at path: "
      [] c = "not a regular file" -> "Error: File stats error: Not a file: "
      [] c = "too large" -> "Error: File stats error: File too large: "
      [] c = "extension" -> "Error: Invalid file type: "
      [] c = "unreadable" -> "Error: File read error: "]
BeginsWith(s, prefix) == Len(s) >= Len(prefix) /\ SubSeq(s, 1, Len(prefix)) = prefix

\* The extraction was invoked, with the key, on a path that fails a check.
PathRefused ==
  /\ InvokedWithDefect
  /\ Truthy(OPENAI_API_KEY)
  /\ IsString(Get(ToolArgs(line), "image_path"))

\* The earliest check the path of the line fails.
EarliestDefect ==
  LET d == Defects(files, ToolArgs(line))
      i == CHOOSE k \in DOMAIN CheckOrder :
             CheckOrder[k] \in d /\ \A j \in DOMAIN CheckOrder : CheckOrder[j] \in d => k <= j
  IN CheckOrder[i]

(* C26: the pipeline reports the first failing check in the order          *)
(* existence, regular file, size, extension, read probe: a path that fails *)
(* several checks is refused with the error of the earliest one.           *)
C26_EarliestCheckIsReported ==
  PathRefused =>
    /\ OneReply
    /\ SoftError(wrote[1])
    /\ BeginsWith(wrote[1].result.content[1].text, ErrorOfCheck[EarliestDefect])

\* An oversized .bmp is refused as too large, not for its extension.
C26_Witness ==
  /\ PathRefused
  /\ Defects(files, ToolArgs(line)) = {"too large", "extension"}
  /\ wrote[1].result.content[1].text = "Error: File stats error: File too large: 10.00MB (max: 5MB)"

\* An unreadable .bmp is refused for its extension, a directory x.txt as no file.
C26_WitnessOthers ==
  /\ PathRefused
  /\ \/ /\ Defects(files, ToolArgs(line)) = {"extension", "unreadable"}
        /\ BeginsWith(wrote[1].result.content[1].text, "Error: Invalid file type: .bmp")
     \/ /\ Defects(files, ToolArgs(line)) = {"not a regular file", "extension"}
        /\ wrote[1].result.content[1].text = "Error: File stats error: Not a file: /d/x.txt"

-----------------------------------------------------------------------------
\* The names of the files the store creates: {image name}-{hash}.txt.
OutputNames == { Name(e) : e \in OutputEntries }

\* The sections are one OCR section followed by analysis sections only.
WellFormed(data) ==
  /\ Len(data) >= 1
  /\ data[1].k = "OCR EXTRACTED TEXT"
  /\ \A i \in 2..Len(data) : data[i].k = "LLM ANALYSIS"

(* C27: in every reachable state every file the store has created is one   *)
(* OCR section followed by zero or more analysis sections, whatever the    *)
(* order of extractions, append_analysis calls and llm_response            *)
(* notifications.                                                          *)
C27_OutputFilesAreWellFormed ==
  \A n \in OutputNames : files[n].kind = "file" => WellFormed(files[n].data)

\* An output file with its OCR section and two analysis sections, the last
\* of them appended by an llm_response notification.
C27_Witness ==
  /\ LineHandled
  /\ IsMethod(line, "notifications/llm_response")
  /\ \E n \in OutputNames :
       /\ files[n].kind = "file"
       /\ Len(files[n].data) = 3
       /\ files[n].data[3].text = "Looks like an invoice"

-----------------------------------------------------------------------------
\* The texts of the analysis sections of the file a path names, in order.
AnalysesAt(path) ==
  LET data == FileAt(files, path).data
      sections == SelectSeq(data, LAMBDA x : x.k = "LLM ANALYSIS")
  IN [i \in DOMAIN sections |-> sections[i].text]

(* C28: a successful append_analysis call adds exactly one analysis        *)
(* section, with the analysis of the call, at the end of its file and      *)
(* leaves what the file held as an unchanged prefix, also when the file    *)
(* already holds a section with the same analysis; no other file changes.  *)
(* So n successful calls leave n sections in the order of the calls.       *)
C28_EachAppendAddsOneSection ==
  [][AppendSucceeded' =>
       LET n == ParsePath(AppendPath(line').s).name
       IN /\ files[n].kind = "file"
          /\ files'[n] = [files[n] EXCEPT !.data = Append(@, LlmSection(AppendText(line').s))]
          /\ \A m \in Names \ {n} : files'[m] = files[m]]_vars

\* The second of two successful calls with the same analysis on the same
\* file: the file holds two sections with it.
C28_Witness ==
  /\ AppendSucceeded
  /\ AnalysesAt(AppendPath(line).s) = <<"checked", "checked">>

\* Two calls with different analyses: the sections are in the order of the
\* calls, after the OCR section the file held.
C28_WitnessOrder ==
  /\ AppendSucceeded
  /\ FileAt(files, "/d/scan-e2c598a1.txt").kind = "file"
  /\ FileAt(files, "/d/scan-e2c598a1.txt").data =
       <<OcrSection("Invoice 48251"), LlmSection("checked"), LlmSection("paid")>>

-----------------------------------------------------------------------------
\* The completion text of the service: its paragraphs with blank lines
\* between them.
CompletionText == JoinWith(Texts(ev.outcome.content), "\n\n")

\* The first blank line of `text` that a heading follows (0 for none).
FirstHeading(text) ==
  LET at == {i \in 1..(Len(text) - 1) :
               /\ SubSeq(text, i, i + 1) = "\n\n"
               /\ \E h \in {"analysis:", "interpretation:", "summary:", "understanding:"} :
                    /\ i + 1 + Len(h) <= Len(text)
                    /\ ToLowerCase(SubSeq(text, i + 2, i + 1 + Len(h))) = h}
  IN IF at = {} THEN 0 ELSE CHOOSE i \in at : \A j \in at : i <= j

\* The split of `text` the claim describes: everything before the heading,
\* everything from the heading on.
Halves(text) ==
  LET i == FirstHeading(text)
  IN IF i = 0 THEN [extractedText |-> text, analysis |-> ""]
     ELSE [extractedText |-> SubSeq(text, 1, i - 1),
           analysis |-> SubSeq(text, i + 2, Len(text))]

\* The extraction of ev.call split `text` into its halves and stored them:
\* the output file holds the first half and, when there is a second half,
\* one analysis section with it.
SplitAs(text) ==
  LET h == Halves(text)
  IN /\ SplitText(CompletionText) = h
     /\ SplitResponse(ev.outcome.content) = h
     /\ h.analysis = "" \/ h.extractedText \o "\n\n" \o h.analysis = text
     /\ (ev.io = "ok" /\ ev.io2 = "ok") =>
          FileAt(files, OutputPath(ev.call.imagePath, h.extractedText)).data =
            IF h.analysis = "" THEN <<OcrSection(h.extractedText)>>
            ELSE <<OcrSection(h.extractedText), LlmSection(h.analysis)>>

(* C29 as stated: splitting a completion text loses nothing: extractedText *)
(* is everything before the first heading that a blank line precedes,      *)
(* analysisText everything from that heading to the end; without such a    *)
(* heading extractedText is the whole text, analysisText is empty and no   *)
(* analysis section is appended.                                           *)
C29_SplitLosesNothing == RemoteAnswered => SplitAs(CompletionText)

(* C29 amended: the same for the text the split is applied to, which is     *)
(* the completion text, or the text "No text extracted" when the completion *)
(* text is empty.                                                           *)
C29_SplitOfTextOrPlaceholder ==
  RemoteAnswered =>
    SplitAs(IF CompletionText = "" THEN "No text extracted" ELSE CompletionText)

\* A completion with two headings, the first in capitals: the analysis is
\* everything from the first heading on.
C29_Witness ==
  /\ RemoteAnswered
  /\ ev.io = "ok" /\ ev.io2 = "ok"
  /\ CompletionText = "Total: 10\n\nSUMMARY: a bill\n\nAnalysis: paid in full"
  /\ FileAt(files, "/d/scan-7aa9d06e.txt").data =
       <<OcrSection("Total: 10"), LlmSection("SUMMARY: a bill\n\nAnalysis: paid in full")>>

-----------------------------------------------------------------------------
(* C30: an empty input line is skipped: the step that reads it writes no   *)
(* reply and changes no state of the server.                               *)
C30_EmptyLineIsSkipped ==
  [][(LineHandled' /\ line' = EmptyLine) =>
       /\ wrote' = <<>>
       /\ UNCHANGED <<files, conversationState, clientInfo, curl, stdin>>]_vars

-----------------------------------------------------------------------------
\* The text the extraction of ev.call took from its completion.
ExtractedNow == SplitResponse(ev.outcome.content).extractedText

(* C31: when an extraction completes, the correlation record holds the     *)
(* image path and the extracted text of that extraction, both written in   *)
(* the step of its completion; so with several extractions in flight the   *)
(* record afterwards is that of the one completed last, not of the one     *)
(* requested last.                                                         *)
C31_RecordIsOfLastCompletion ==
  [][RemoteAnswered' =>
       /\ conversationState'.lastImagePath = Str(ev'.call.imagePath)
       /\ conversationState'.lastOcrResult =
            Str(SplitResponse(ev'.outcome.content).extractedText)]_vars

\* Two extractions of different images were in flight; the one requested
\* first completes last, after the other has been answered and saved, and
\* the record is that of the first.
C31_Witness ==
  /\ RemoteAnswered
  /\ ev.call.req = 1
  /\ replies = <<1, 1>>
  /\ curl = {}
  /\ \E x \in saved : x.imagePath # ev.call.imagePath
  /\ conversationState.lastImagePath = Str(ev.call.imagePath)
  /\ conversationState.lastOcrResult = Str(ExtractedNow)

-----------------------------------------------------------------------------
(* C32: lastImagePath and lastOcrResult belong to the same extraction in   *)
(* every reachable state.  Both are unset at the start, so this is: once   *)
(* a text is set, the pair changes only in the step that completes an      *)
(* extraction, and then to the resolved path and the text of that          *)
(* extraction.                                                             *)
C32_PathAndTextOfOneExtraction ==
  [][(conversationState'.lastOcrResult # Undef
        /\ Correlation(conversationState') # Correlation(conversationState)) =>
       /\ RemoteAnswered'
       /\ Correlation(conversationState') =
            <<Str(Resolve(ev'.call.imagePath)),
              Str(SplitResponse(ev'.outcome.content).extractedText)>>]_vars

-----------------------------------------------------------------------------
\* The step was an extraction that completed and saved its file, and no
\* other extraction is in flight.
JustSaved == RemoteAnswered /\ ev.io = "ok" /\ curl = {}

\* The file the extraction of ev.call saved.
SavedFilePath == OutputPath(ev.call.imagePath, ExtractedNow)

(* C33: when a notifications/llm_response notification is the next thing   *)
(* after an extraction that saved its file, its analysis is appended to    *)
(* that file, whatever other output files of the image the directory       *)
(* holds.                                                                  *)
C33_LateAnalysisGoesToSavedFile ==
  [][(JustSaved /\ LineHandled' /\ IsMethod(line', "notifications/llm_response")
        /\ ev'.io = "ok") =>
       FileAt(files', SavedFilePath).data =
         Append(FileAt(files, SavedFilePath).data, LlmSection(Template(ParamsOf(line'))))]_vars

-----------------------------------------------------------------------------
\* The names of the output files of the image a path names.
OutputNamesOf(imagePath) ==
  { Name(Entry(Append(BaseSegments(imagePath), h), ".txt")) : h \in Hashes }

(* C34: a notifications/llm_response notification modifies no file but an  *)
(* output file of the image lastImagePath names: not the output file of    *)
(* another image, such as scan-2.jpg when the last image is scan.jpg.      *)
C34_LateAnalysisStaysWithItsImage ==
  [][(LineHandled' /\ IsMethod(line', "notifications/llm_response")) =>
       \A n \in Names :
         files'[n] # files[n] =>
           /\ IsString(conversationState.lastImagePath)
           /\ n \in OutputNamesOf(conversationState.lastImagePath.s)]_vars

-----------------------------------------------------------------------------
\* The step handled a notifications/llm_response notification.
LateAnalysisHandled == LineHandled /\ IsMethod(line, "notifications/llm_response")

(* C35: a notifications/llm_response notification adds exactly one entry,  *)
(* its own, to the analysis log, and it modifies at most one file, to      *)
(* which it appends exactly one analysis section: no notification is       *)
(* written to a file twice.                                                *)
C35_OneEntryAtMostOneSection ==
  [][LateAnalysisHandled' =>
       /\ conversationState'.llmResponses =
            Append(conversationState.llmResponses, [response |-> Stringify(ParamsOf(line'))])
       /\ Cardinality({n \in Names : files'[n] # files[n]}) <= 1
       /\ \A n \in Names :
            files'[n] # files[n] =>
              /\ files[n].kind = "file"
              /\ files'[n] = [files[n] EXCEPT
                                !.data = Append(@, LlmSection(Template(ParamsOf(line'))))]]_vars

\* The notification after an extraction that saved its file: one entry in
\* the log, one section in the file.
C35_Witness ==
  /\ LateAnalysisHandled
  /\ ev.io = "ok"
  /\ Len(conversationState.llmResponses) = 1
  /\ conversationState.lastOcrResult = Str("Invoice 48251")
  /\ files["scan-e2c598a1.txt"].kind = "file"
  /\ SectionsAt(files, "/d/scan-e2c598a1.txt") = 1
  /\ files = [Disk0 EXCEPT !["scan-e2c598a1.txt"] =
                Regular(0, TRUE, <<OcrSection("Invoice 48251"),
                                   LlmSection("Looks like an invoice")>>)]

-----------------------------------------------------------------------------
\* The analysis sections of a file, in their order.
AnalysisSections(f) ==
  IF f.kind = "file" THEN SelectSeq(f.data, LAMBDA x : x.k = "LLM ANALYSIS") ELSE <<>>

\* The sequence a begins the sequence b.
IsPrefix(a, b) == Len(a) <= Len(b) /\ SubSeq(b, 1, Len(a)) = a

(* C36: an analysis section that has been appended to a file stays in it:  *)
(* no step removes an analysis section from any file, also not the         *)
(* extraction that yields the text of an existing output file again.       *)
C36_AnalysisSectionsStay ==
  [][\A n \in Names : IsPrefix(AnalysisSections(files[n]), AnalysisSections(files'[n]))]_vars

-----------------------------------------------------------------------------
(* C37: extractions of two distinct source images never write the same     *)
(* output file, whatever their texts: the files saved for different images *)
(* have different paths.                                                   *)
C37_DistinctImagesDistinctFiles ==
  \A a, b \in saved : a.imagePath # b.imagePath => a.savedFilePath # b.savedFilePath

-----------------------------------------------------------------------------
\* C38  the credential and the replies

\* A second credential, to run the same step with.
OtherCredential == "sk-test-9876543210zyxwvutsrqp"

\* The settlement the closing curl of the last step would have brought under
\* the credential `key`, everything else being what it was.
SettledUnder(key) ==
  OnCurlClose(files, conversationState, [ev'.call EXCEPT !.key = key],
              ev'.outcome, ev'.io, ev'.io2).s

(* C38: no reply written to the client depends on the API credential: when a
   curl closes, the reply its request gets is the one it would have got with
   another credential and the same outcome of the remote call, the error reply
   of a failed transport included. *)
C38_ReplyIndependentOfCredential ==
  [][Closed' => SettledUnder(OtherCredential) = SettledUnder(ev'.call.key)]_vars

====
